---- MODULE Spec2Model ----
(***************************************************************************)
(* Model of the calorie-analysis server action of peekafood                *)
(* (getCalorieBreakdown and its helpers).                                  *)
(*                                                                         *)
(* A text is a sequence of one-character strings.  A JavaScript value is a *)
(* record [k, v]: k is the kind ("undefined", "null", "bool", "num",       *)
(* "str", "arr", "obj") and v the payload; an object is the sequence of    *)
(* its [key, val] properties in insertion order.                           *)
(***************************************************************************)
EXTENDS Integers, Sequences, FiniteSets, TLC

(***************************************************************************)
(* Texts                                                                   *)
(***************************************************************************)
Whitespace == {" ", "\n", "\t", "\r"}
Delimiters == {",", ":", "{", "[", "]", "}"}
Closers == {"}", "]"}
DigitChars == <<"0", "1", "2", "3", "4", "5", "6", "7", "8", "9">>
UpperChars == <<"A", "B", "C", "D", "E", "F", "G", "H", "I", "J", "K", "L", "M",
                "N", "O", "P", "Q", "R", "S", "T", "U", "V", "W", "X", "Y", "Z">>
LowerChars == <<"a", "b", "c", "d", "e", "f", "g", "h", "i", "j", "k", "l", "m",
                "n", "o", "p", "q", "r", "s", "t", "u", "v", "w", "x", "y", "z">>


\* The part of s that starts at position from (1-based).
From(s, from) == SubSeq(s, from, Len(s))

\* Does pat occur in s at position from?
StartsWithAt(s, from, pat) ==
  /\ from >= 1
  /\ from + Len(pat) - 1 <= Len(s)
  /\ SubSeq(s, from, from + Len(pat) - 1) = pat

Min(S) == CHOOSE x \in S : \A y \in S : x <= y
Max(S) == CHOOSE x \in S : \A y \in S : x >= y

\* The first position >= from of s holding a character of set S, 0 if there is none.
IndexOfFrom(s, S, from) ==
  LET M == {j \in from..Len(s) : s[j] \in S}
  IN IF M = {} THEN 0 ELSE Min(M)

\* The first position >= from of s that holds no whitespace (Len(s)+1 if none): \s*
SkipWs(s, from) ==
  LET M == {j \in from..Len(s) : s[j] \notin Whitespace}
  IN IF M = {} THEN Len(s) + 1 ELSE Min(M)

\* The last position <= from of s holding a character of set S, 0 if there is none.
LastIndexOf(s, S, from) ==
  LET M == {j \in 1..from : s[j] \in S}
  IN IF M = {} THEN 0 ELSE Max(M)

\* The last position <= from of s that holds no whitespace, 0 if there is none.
LastNonWs(s, from) ==
  LET M == {j \in 1..from : s[j] \notin Whitespace}
  IN IF M = {} THEN 0 ELSE Max(M)

\* String.prototype.trim
trim(s) ==
  LET a == SkipWs(s, 1)
      b == LastNonWs(s, Len(s))
  IN IF a > b THEN <<>> ELSE SubSeq(s, a, b)

toLowerCaseChar(c) ==
  IF \E n \in DOMAIN UpperChars : UpperChars[n] = c
  THEN LowerChars[CHOOSE n \in DOMAIN UpperChars : UpperChars[n] = c]
  ELSE c

\* String.prototype.toLowerCase
toLowerCase(s) == [from \in DOMAIN s |-> toLowerCaseChar(s[from])]

\* The backquote character (a TLA+ string cannot hold it).
Backquote == "BQ"
Fence == <<Backquote, Backquote, Backquote>>
FenceJson == Fence \o <<"j", "s", "o", "n">>

\* A global replace scans the text from the left: the leftmost of the match
\* positions M, 0 if there is none.
FirstOf(M) == IF M = {} THEN 0 ELSE Min(M)

\* s.replace(/FENCEjson\s*/g, ''), FENCE being three backquotes
FenceJsonAt(s, j) == StartsWithAt(s, j, FenceJson)

RECURSIVE StripFenceJsonFrom(_, _)
StripFenceJsonFrom(s, from) ==
  LET j == FirstOf({m \in from..Len(s) : FenceJsonAt(s, m)})
  IN IF j = 0 THEN From(s, from)
     ELSE SubSeq(s, from, j - 1) \o StripFenceJsonFrom(s, SkipWs(s, j + Len(FenceJson)))

StripFenceJson(s) == StripFenceJsonFrom(s, 1)

\* s.replace(/FENCE\s*$/g, ''): the only match is a fence followed by whitespace
\* up to the end of the text.
StripFenceEnd(s) ==
  LET b == LastNonWs(s, Len(s))
  IN IF b >= 3 /\ StartsWithAt(s, b - 2, Fence) THEN SubSeq(s, 1, b - 3) ELSE s

\* s.match(/\{[\s\S]*\}/): from the first opening brace to the last closing
\* brace; the text itself when there is no match.
ExtractBraces(s) ==
  LET a == IndexOfFrom(s, {"{"}, 1)
      b == LastIndexOf(s, {"}"}, Len(s))
  IN IF a > 0 /\ b > a THEN SubSeq(s, a, b) ELSE s

\* s.replace(/("[^"]*")\s*[^,:{\[\]\}]+([:,\{\[\]\}])/g, '$1$2')
\* A match at j: a quote at j, the next quote at q, a non-empty run of
\* characters that are no delimiters, then a delimiter at d.
CommentaryQuote(s, j) == IF s[j] = "\"" THEN IndexOfFrom(s, {"\""}, j + 1) ELSE 0
CommentaryEnd(s, j) ==
  LET q == CommentaryQuote(s, j)
  IN IF q > 0 THEN IndexOfFrom(s, Delimiters, q + 1) ELSE 0
CommentaryAt(s, j) == CommentaryQuote(s, j) > 0 /\ CommentaryEnd(s, j) > CommentaryQuote(s, j) + 1

RECURSIVE RemoveCommentaryFrom(_, _)
RemoveCommentaryFrom(s, from) ==
  LET j == FirstOf({m \in from..Len(s) : CommentaryAt(s, m)})
  IN IF j = 0 THEN From(s, from)
     ELSE SubSeq(s, from, CommentaryQuote(s, j)) \o <<s[CommentaryEnd(s, j)]>>
          \o RemoveCommentaryFrom(s, CommentaryEnd(s, j) + 1)

RemoveCommentary(s) == RemoveCommentaryFrom(s, 1)

\* s.replace(/"([^"]+)",(\s*X)/g, '"$1": 0,$2') where X is one character of
\* the set After.  A match at j: a quote at j, the next quote at q after at
\* least one character, a comma, whitespace, and a character of After at e.
MissingValueQuote(s, j) == IF s[j] = "\"" THEN IndexOfFrom(s, {"\""}, j + 1) ELSE 0
MissingValueEnd(s, After, j) ==
  LET q == MissingValueQuote(s, j)
      e == IF q > j + 1 /\ q + 1 <= Len(s) /\ s[q + 1] = ","
           THEN SkipWs(s, q + 2) ELSE 0
  IN IF e > 0 /\ e <= Len(s) /\ s[e] \in After THEN e ELSE 0

RECURSIVE PatchMissingValueFrom(_, _, _)
PatchMissingValueFrom(s, After, from) ==
  LET j == FirstOf({m \in from..Len(s) : MissingValueEnd(s, After, m) > 0})
      q == MissingValueQuote(s, j)
      e == MissingValueEnd(s, After, j)
  IN IF j = 0 THEN From(s, from)
     ELSE SubSeq(s, from, q) \o <<":", " ", "0", ",">> \o SubSeq(s, q + 2, e)
          \o PatchMissingValueFrom(s, After, e + 1)

PatchMissingValue(s, After) == PatchMissingValueFrom(s, After, 1)

\* s.replace(/,(\s*[\}\]])/g, '$1')
TrailingCommaEnd(s, j) ==
  LET e == IF s[j] = "," THEN SkipWs(s, j + 1) ELSE 0
  IN IF e > 0 /\ e <= Len(s) /\ s[e] \in Closers THEN e ELSE 0
TrailingCommaAt(s, j) == TrailingCommaEnd(s, j) > 0

RECURSIVE StripTrailingCommasFrom(_, _)
StripTrailingCommasFrom(s, from) ==
  LET j == FirstOf({m \in from..Len(s) : TrailingCommaAt(s, m)})
  IN IF j = 0 THEN From(s, from)
     ELSE SubSeq(s, from, j - 1) \o SubSeq(s, j + 1, TrailingCommaEnd(s, j))
          \o StripTrailingCommasFrom(s, TrailingCommaEnd(s, j) + 1)

\* The step for trailing commas left out: a fault the statement of C17 has to
\* detect.
KeepTrailingCommas(s) == s

StripTrailingCommas(s) == StripTrailingCommasFrom(s, 1)

\* The syntactic repair steps of processGeminiResponse before the one for
\* trailing commas, in the code's order.
patchedResponse(responseText) ==
  PatchMissingValue(
    PatchMissingValue(
      RemoveCommentary(ExtractBraces(StripFenceEnd(StripFenceJson(responseText)))),
      {"}", ",", "]"}),
    {"\""})

\* All the syntactic repair steps of processGeminiResponse.
cleanedResponse(responseText) == StripTrailingCommas(patchedResponse(responseText))

\* The cleaning validateJsonFormat applies to the validation reply.
cleanedValidation(validationResponse) ==
  ExtractBraces(StripFenceEnd(StripFenceJson(validationResponse)))

(***************************************************************************)
(* JavaScript values, JSON.parse and JSON.stringify                        *)
(***************************************************************************)
undefined == [k |-> "undefined", v |-> <<>>]
null == [k |-> "null", v |-> <<>>]
Bool(b) == [k |-> "bool", v |-> b]
Num(n) == [k |-> "num", v |-> n]
Str(s) == [k |-> "str", v |-> s]
Arr(a) == [k |-> "arr", v |-> a]
Obj(props) == [k |-> "obj", v |-> props]
Prop(key, val) == [key |-> key, val |-> val]

\* ToBoolean: what `if (x)` and `x || y` test.
Truthy(x) ==
  CASE x.k \in {"undefined", "null"} -> FALSE
    [] x.k = "bool" -> x.v
    [] x.k = "num" -> x.v # 0
    [] x.k = "str" -> x.v # <<>>
    [] OTHER -> TRUE

HasProp(x, key) == x.k = "obj" /\ \E n \in DOMAIN x.v : x.v[n].key = key

\* x.key for a value x that is neither null nor undefined: a primitive or an
\* array has none of the keys the code reads.
GetProp(x, key) ==
  IF HasProp(x, key)
  THEN x.v[CHOOSE n \in DOMAIN x.v : x.v[n].key = key].val
  ELSE undefined

\* The object x after x.key = val: an own property keeps its place, a new one
\* is added last.
SetProp(x, key, val) ==
  IF HasProp(x, key)
  THEN Obj([n \in DOMAIN x.v |-> IF x.v[n].key = key THEN Prop(key, val) ELSE x.v[n]])
  ELSE Obj(Append(x.v, Prop(key, val)))

IsDigit(c) == \E n \in DOMAIN DigitChars : DigitChars[n] = c
DigitValue(c) == (CHOOSE n \in DOMAIN DigitChars : DigitChars[n] = c) - 1

\* A parse step: ok, the value read and the position after it.
ParseOk(val, pos) == [ok |-> TRUE, val |-> val, pos |-> pos]
ParseFail == [ok |-> FALSE, val |-> undefined, pos |-> 0]

\* The digits of s starting at position from, read as a number with value acc so far.
RECURSIVE ParseDigits(_, _, _)
ParseDigits(s, from, acc) ==
  IF from <= Len(s) /\ IsDigit(s[from])
  THEN ParseDigits(s, from + 1, 10 * acc + DigitValue(s[from]))
  ELSE ParseOk(Num(acc), from)

\* A JSON number at position from: no leading zero.
ParseNumber(s, from) ==
  IF s[from] = "0" /\ from + 1 <= Len(s) /\ IsDigit(s[from + 1])
  THEN ParseFail
  ELSE ParseDigits(s, from, 0)

\* A JSON string whose opening quote is at position from: no raw control
\* character inside.
ParseString(s, from) ==
  LET q == IndexOfFrom(s, {"\""}, from + 1)
  IN IF q = 0 \/ \E n \in (from + 1)..(q - 1) : s[n] \in {"\n", "\t", "\r"}
     THEN ParseFail
     ELSE ParseOk(Str(SubSeq(s, from + 1, q - 1)), q + 1)

ParseLiteral(s, from, word, val) ==
  IF StartsWithAt(s, from, word) THEN ParseOk(val, from + Len(word)) ELSE ParseFail

RECURSIVE ParseValue(_, _)
RECURSIVE ParseMembers(_, _, _)
RECURSIVE ParseElements(_, _, _)

\* After a member: next is the object read so far, e the position of the
\* character that follows the member's value.
MembersNext(s, next, e) ==
  IF e > Len(s) THEN ParseFail
  ELSE IF s[e] = "}" THEN ParseOk(next, e + 1)
  ELSE IF s[e] = "," THEN ParseMembers(s, SkipWs(s, e + 1), next)
  ELSE ParseFail

\* After a member's value val, read for the key name.  A repeated key keeps
\* its last value.
MembersAfterValue(s, obj, name, val) ==
  IF val.ok THEN MembersNext(s, SetProp(obj, name, val.val), SkipWs(s, val.pos))
  ELSE ParseFail

\* After a member's key name: a colon is expected at position c.
MembersAtColon(s, obj, name, c) ==
  IF c <= Len(s) /\ s[c] = ":"
  THEN MembersAfterValue(s, obj, name, ParseValue(s, c + 1))
  ELSE ParseFail

MembersAfterKey(s, obj, key) ==
  IF key.ok THEN MembersAtColon(s, obj, key.val.v, SkipWs(s, key.pos))
  ELSE ParseFail

\* The members of an object starting at position from (a key is expected
\* there); obj is the object read so far.
ParseMembers(s, from, obj) ==
  IF from > Len(s) \/ s[from] # "\"" THEN ParseFail
  ELSE MembersAfterKey(s, obj, ParseString(s, from))

\* After an element: next holds the elements read so far, e is the position
\* of the character that follows the element.
ElementsNext(s, next, e) ==
  IF e > Len(s) THEN ParseFail
  ELSE IF s[e] = "]" THEN ParseOk(Arr(next), e + 1)
  ELSE IF s[e] = "," THEN ParseElements(s, e + 1, next)
  ELSE ParseFail

ElementsAfterValue(s, arr, val) ==
  IF val.ok THEN ElementsNext(s, Append(arr, val.val), SkipWs(s, val.pos))
  ELSE ParseFail

\* The elements of an array starting at position from; arr holds those read
\* so far.
ParseElements(s, from, arr) == ElementsAfterValue(s, arr, ParseValue(s, from))

\* After an opening brace: m is the position of the next character that is
\* no whitespace.
ObjectAt(s, m) ==
  IF m <= Len(s) /\ s[m] = "}" THEN ParseOk(Obj(<<>>), m + 1)
  ELSE ParseMembers(s, m, Obj(<<>>))

\* After an opening bracket.
ArrayAt(s, m) ==
  IF m <= Len(s) /\ s[m] = "]" THEN ParseOk(Arr(<<>>), m + 1)
  ELSE ParseElements(s, m, <<>>)

\* A JSON value at position j, which holds no whitespace.
ValueAt(s, j) ==
  IF j > Len(s) THEN ParseFail
  ELSE IF s[j] = "{" THEN ObjectAt(s, SkipWs(s, j + 1))
  ELSE IF s[j] = "[" THEN ArrayAt(s, SkipWs(s, j + 1))
  ELSE IF s[j] = "\"" THEN ParseString(s, j)
  ELSE IF IsDigit(s[j]) THEN ParseNumber(s, j)
  ELSE IF s[j] = "t" THEN ParseLiteral(s, j, <<"t", "r", "u", "e">>, Bool(TRUE))
  ELSE IF s[j] = "f" THEN ParseLiteral(s, j, <<"f", "a", "l", "s", "e">>, Bool(FALSE))
  ELSE IF s[j] = "n" THEN ParseLiteral(s, j, <<"n", "u", "l", "l">>, null)
  ELSE ParseFail

\* A JSON value at or after position from, whitespace before it skipped.
ParseValue(s, from) == ValueAt(s, SkipWs(s, from))

\* The whole text must be one value, whitespace around it allowed.
WholeText(s, r) == IF r.ok /\ SkipWs(s, r.pos) > Len(s) THEN r ELSE ParseFail

\* JSON.parse(s): ok is FALSE where JSON.parse throws a SyntaxError.
JSONparse(s) == WholeText(s, ParseValue(s, 1))

\* The characters JSONparse reads as JavaScript's JSON.parse does: no sign,
\* fraction, exponent or escape, which the parser above does not read.
InParserDomain(s) ==
  /\ \A n \in DOMAIN s : s[n] \notin {"-", "+", ".", "\\"}
  /\ \A n \in DOMAIN s :
       (IsDigit(s[n]) /\ n + 1 <= Len(s)) => s[n + 1] \notin {"e", "E"}

\* The decimal digits of a natural number.
RECURSIVE NumChars(_)
NumChars(n) ==
  IF n < 10 THEN <<DigitChars[n + 1]>>
  ELSE NumChars(n \div 10) \o <<DigitChars[(n % 10) + 1]>>

RECURSIVE JSONstringify(_)
RECURSIVE StringifyProps(_, _, _)
RECURSIVE StringifyElems(_, _)

\* The properties n.. of an object; first tells that none was written yet.
\* A property whose value is undefined is left out.
StringifyProps(props, n, first) ==
  IF n > Len(props) THEN <<>>
  ELSE IF props[n].val.k = "undefined" THEN StringifyProps(props, n + 1, first)
  ELSE (IF first THEN <<>> ELSE <<",">>)
       \o <<"\"">> \o props[n].key \o <<"\"", ":">> \o JSONstringify(props[n].val)
       \o StringifyProps(props, n + 1, FALSE)

\* The elements n.. of an array; undefined is written as null.
StringifyElems(a, n) ==
  IF n > Len(a) THEN <<>>
  ELSE (IF n = 1 THEN <<>> ELSE <<",">>)
       \o (IF a[n].k = "undefined" THEN <<"n", "u", "l", "l">> ELSE JSONstringify(a[n]))
       \o StringifyElems(a, n + 1)

\* JSON.stringify(x) for a value x other than undefined.
JSONstringify(x) ==
  CASE x.k = "null" -> <<"n", "u", "l", "l">>
    [] x.k = "bool" -> IF x.v THEN <<"t", "r", "u", "e">> ELSE <<"f", "a", "l", "s", "e">>
    [] x.k = "num" -> NumChars(x.v)
    [] x.k = "str" -> <<"\"">> \o x.v \o <<"\"">>
    [] x.k = "arr" -> <<"[">> \o StringifyElems(x.v, 1) \o <<"]">>
    [] x.k = "obj" -> <<"{">> \o StringifyProps(x.v, 1, TRUE) \o <<"}">>

(***************************************************************************)
(* The model collaborator and the helpers of getCalorieBreakdown           *)
(***************************************************************************)
\* What one model.generateContent call (with response.text()) does: it throws
\* or it returns a text.
Threw == [threw |-> TRUE, text |-> <<>>]
Returned(text) == [threw |-> FALSE, text |-> text]

\* What a function of the code does: it throws or it returns a value.
Throws == [threw |-> TRUE, val |-> undefined]
Returns(val) == [threw |-> FALSE, val |-> val]

\* Property names of CalorieBreakdownResponse and of its items.
KmealDescription ==
  <<"m", "e", "a", "l", "D", "e", "s", "c", "r", "i", "p", "t", "i", "o", "n">>
KtotalEstimatedCalories ==
  <<"t", "o", "t", "a", "l", "E", "s", "t", "i", "m", "a", "t", "e", "d",
    "C", "a", "l", "o", "r", "i", "e", "s">>
Kitems == <<"i", "t", "e", "m", "s">>
KconfidenceScore ==
  <<"c", "o", "n", "f", "i", "d", "e", "n", "c", "e", "S", "c", "o", "r", "e">>
KassumptionsMade ==
  <<"a", "s", "s", "u", "m", "p", "t", "i", "o", "n", "s", "M", "a", "d", "e">>
Kerror == <<"e", "r", "r", "o", "r">>
KitemName == <<"i", "t", "e", "m", "N", "a", "m", "e">>
Kcalories == <<"c", "a", "l", "o", "r", "i", "e", "s">>

\* The three fixed error results.  A message of the program that is only
\* compared, never scanned, is written as one piece of text.
ErrorResult(message) ==
  Obj(<<Prop(Kerror, Str(<<message>>)),
        Prop(KtotalEstimatedCalories, Num(0)),
        Prop(Kitems, Arr(<<>>))>>)

\* The not-food result with its message alone, the zero total and the empty
\* items forgotten: a fault the statement of C5 has to detect.
NotFoodMessageOnly ==
  Obj(<<Prop(Kerror, Str(<<"The uploaded image does not appear to be a food or meal photo. Please upload an image of your meal.">>))>>)
NotFoodResult ==
  ErrorResult("The uploaded image does not appear to be a food or meal photo. Please upload an image of your meal.")
\* The no-valid-result error with its message alone: a fault the statement of
\* C3 has to detect.
NoValidMessageOnly ==
  Obj(<<Prop(Kerror, Str(<<"Failed to get any valid calorie breakdown from AI after multiple attempts.">>))>>)
NoValidResult ==
  ErrorResult("Failed to get any valid calorie breakdown from AI after multiple attempts.")
FailedResult ==
  ErrorResult("Failed to get calorie breakdown from AI. Please try again later.")

\* A gate that looks only at how the answer starts: a fault the statement of
\* C24 has to detect.
validateFoodImagePrefix(reply) ==
  IF reply.threw THEN TRUE
  ELSE StartsWithAt(toLowerCase(trim(reply.text)), 1, <<"t", "r", "u", "e">>)

\* A gate that fails closed, its catch returning false: a fault the statement
\* of C6 has to detect.
validateFoodImageFailClosed(reply) ==
  ~reply.threw /\ toLowerCase(trim(reply.text)) = <<"t", "r", "u", "e">>

\* validateFoodImage, given what its model call did.
validateFoodImage(reply) ==
  IF reply.threw THEN TRUE
  ELSE toLowerCase(trim(reply.text)) = <<"t", "r", "u", "e">>

\* validateJsonFormat without its second JSON.parse: a fault the statement of
\* C15 has to detect.
validatedOnly(validated, original) ==
  IF validated.ok THEN Returns(validated.val) ELSE Throws

\* The end of validateJsonFormat: validated is the parse of the cleaned
\* validation reply, original the parse of the response itself.
firstParsed(validated, original) ==
  IF validated.ok THEN Returns(validated.val)
  ELSE IF original.ok THEN Returns(original.val)
  ELSE Throws

\* validateJsonFormat(response, model), given what its model call did: the
\* parse of the cleaned reply, else the parse of response; it throws when
\* JSON.parse(response) throws.
validateJsonFormat(response, reply) ==
  firstParsed(IF reply.threw THEN ParseFail
              ELSE JSONparse(cleanedValidation(reply.text)),
              JSONparse(response))

\* The second half of processGeminiResponse: response is the cleaned response
\* that was sent for validation, reply what the validation call did.
processValidated(response, reply) ==
  LET validationResult == validateJsonFormat(response, reply)
  IN IF validationResult.threw THEN null ELSE validationResult.val

\* processGeminiResponse(responseText, model), given what the validation call
\* did.
processGeminiResponse(responseText, reply) ==
  processValidated(cleanedResponse(responseText), reply)

(***************************************************************************)
(* What the model may answer                                               *)
(***************************************************************************)
\* The largest calorie figure of a well-formed reply.
MaxCalories == 2

NUM_ANALYSES == 5

\* A reply of the shape the prompt asks for.
WellFormed(n) ==
  Obj(<<Prop(KmealDescription, Str(<<"m">>)),
        Prop(KtotalEstimatedCalories, Num(n)),
        Prop(Kitems, Arr(<<Obj(<<Prop(KitemName, Str(<<"x">>)),
                                 Prop(Kcalories, Num(n))>>)>>)),
        Prop(KconfidenceScore, Num(n)),
        Prop(KassumptionsMade, Str(<<"s">>))>>)

WellFormedTexts == {JSONstringify(WellFormed(n)) : n \in 1..MaxCalories}

\* JSON of another shape, and no JSON at all.
NumberText == <<"5">>
ErrorText == JSONstringify(Obj(<<Prop(Kerror, Str(<<"x">>))>>))
ProseText == <<"o", "o", "p", "s">>

\* The texts an analysis, validation or merge call may return.
Texts == WellFormedTexts \cup {NumberText, ErrorText, ProseText}

\* The texts the gate call may return.
GateTexts ==
  { <<"t", "r", "u", "e">>, <<"f", "a", "l", "s", "e">>, <<"y", "e", "s">> }

Replies == {Threw} \cup {Returned(t) : t \in Texts}
GateReplies == {Threw} \cup {Returned(t) : t \in GateTexts}

\* The functions of the code on the replies above, tabulated as sets of
\* <<argument, result>> pairs: cleanedResponse and processValidated (of a cleaned
\* response and the reply of its validation call).
Tabulated(table, x) == (CHOOSE p \in table : p[1] = x)[2]
TabulatedOr(table, x, other) ==
  IF \E p \in table : p[1] = x THEN Tabulated(table, x) ELSE other

CleanedResponses == {<<t, cleanedResponse(t)>> : t \in Texts}
CleanedTexts == {p[2] : p \in CleanedResponses}
ProcessedResponses ==
  {<< <<c, r>>, processValidated(c, r)>> : c \in CleanedTexts, r \in Replies}

\* Every candidate a reply can lead to.
Candidates == {c \in {p[2] : p \in ProcessedResponses} : Truthy(c)}

(***************************************************************************)
(* The reducers                                                            *)
(***************************************************************************)
\* What a reducer does to the candidates it is given (they are objects it may
\* write to) and what it returns.
Reduced(val, results) == [threw |-> FALSE, val |-> val, results |-> results]
ReducerThrows(results) == [threw |-> TRUE, val |-> undefined, results |-> results]

\* result.items?.map(item => ({ itemName: item.itemName, calories: item.calories }))
\* It throws a TypeError when items is neither nullish nor an array, and when
\* an item is null.
simplifiedItems(result) ==
  LET items == GetProp(result, Kitems)
  IN IF items.k \in {"undefined", "null"} THEN Returns(undefined)
     ELSE IF items.k # "arr" THEN Throws
     ELSE IF \E n \in DOMAIN items.v : items.v[n].k = "null" THEN Throws
     ELSE Returns(Arr([n \in DOMAIN items.v |->
            Obj(<<Prop(KitemName, GetProp(items.v[n], KitemName)),
                  Prop(Kcalories, GetProp(items.v[n], Kcalories))>>)]))

\* resultKey: JSON.stringify(simplifiedResult)
resultKey(result) ==
  JSONstringify(
    Obj(<<Prop(KmealDescription, GetProp(result, KmealDescription)),
          Prop(KtotalEstimatedCalories, GetProp(result, KtotalEstimatedCalories)),
          Prop(Kitems, simplifiedItems(result).val)>>))

\* The candidates findConsensusResultFallback is run on by itself: the number
\* of their signatures and their largest confidenceScore.
MaxSignature == 2
MaxScore == 1

\* A CalorieBreakdownResponse whose mealDescription, totalEstimatedCalories and
\* items are told by n, with the given confidenceScore.
Analysis(n, score) ==
  Obj(<<Prop(KmealDescription, Str(<<"m">>)),
        Prop(KtotalEstimatedCalories, Num(n)),
        Prop(Kitems, Arr(<<Obj(<<Prop(KitemName, Str(<<"x">>)),
                                 Prop(Kcalories, Num(n))>>)>>)),
        Prop(KconfidenceScore, Num(score)),
        Prop(KassumptionsMade, Str(<<"s">>))>>)

\* A result of the type that bears nothing but an error (every field of the
\* type is optional): it has no confidenceScore.
ErrorOnly == Obj(<<Prop(Kerror, Str(<<"x">>))>>)

FallbackCandidates ==
  {Analysis(n, score) : n \in 1..MaxSignature, score \in 0..MaxScore}
    \cup {ErrorOnly}

\* resultKey of every candidate, computed once.
ResultKeys == {<<c, resultKey(c)>> : c \in Candidates \cup FallbackCandidates}
resultKeyOf(result) == TabulatedOr(ResultKeys, result, resultKey(result))

\* resultCounts after the results n.. are counted into buckets: the entries of
\* the Map in insertion order, each with the position of its first result.
RECURSIVE resultCounts(_, _, _)
counted(results, n, buckets, key) ==
  IF \E b \in DOMAIN buckets : buckets[b].key = key
  THEN resultCounts(results, n + 1,
         [b \in DOMAIN buckets |->
            IF buckets[b].key = key
            THEN [buckets[b] EXCEPT !.count = @ + 1] ELSE buckets[b]])
  ELSE resultCounts(results, n + 1,
         Append(buckets, [key |-> key, count |-> 1, index |-> n]))

resultCounts(results, n, buckets) ==
  IF n > Len(results) THEN buckets
  ELSE counted(results, n, buckets, resultKeyOf(results[n]))

\* The loop with >= for >, so that the last of the fullest buckets wins: a
\* fault the statement of C11 has to detect.
RECURSIVE highestCountLastWins(_, _, _)
highestCountLastWins(buckets, b, best) ==
  IF b > Len(buckets) THEN best
  ELSE highestCountLastWins(buckets, b + 1,
         IF buckets[b].count >= best.maxCount
         THEN [maxCount |-> buckets[b].count, index |-> buckets[b].index]
         ELSE best)

\* The loop over resultCounts.entries(): best is [maxCount, index] so far.
RECURSIVE highestCount(_, _, _)
highestCount(buckets, b, best) ==
  IF b > Len(buckets) THEN best
  ELSE highestCount(buckets, b + 1,
         IF buckets[b].count > best.maxCount
         THEN [maxCount |-> buckets[b].count, index |-> buckets[b].index]
         ELSE best)

\* ToNumber for the kinds a comparison with a number is modelled for.
NaN == [nan |-> TRUE, n |-> 0]
ToNumber(x) ==
  CASE x.k = "num" -> [nan |-> FALSE, n |-> x.v]
    [] x.k = "bool" -> [nan |-> FALSE, n |-> IF x.v THEN 1 ELSE 0]
    [] x.k = "null" -> [nan |-> FALSE, n |-> 0]
    [] OTHER -> NaN

\* a > b
GreaterThan(a, b) ==
  LET x == ToNumber(a)
      y == ToNumber(b)
  IN ~x.nan /\ ~y.nan /\ x.n > y.n

\* The tie-break loop with >= for >, so that the last of the highest scores
\* wins: a fault the statement of C12 has to detect.
RECURSIVE highestConfidenceLastWins(_, _, _)
highestConfidenceLastWins(results, n, best) ==
  IF n > Len(results) THEN best
  ELSE
    LET score == GetProp(results[n], KconfidenceScore)
        confidence == IF Truthy(score) THEN score ELSE Num(0)
    IN highestConfidenceLastWins(results, n + 1,
         IF ~GreaterThan(best.highestConfidence, confidence)
         THEN [highestConfidence |-> confidence, index |-> n]
         ELSE best)

\* The tie-break loop: best is [highestConfidence, index] so far.
RECURSIVE highestConfidence(_, _, _)
highestConfidence(results, n, best) ==
  IF n > Len(results) THEN best
  ELSE
    LET score == GetProp(results[n], KconfidenceScore)
        confidence == IF Truthy(score) THEN score ELSE Num(0)
    IN highestConfidence(results, n + 1,
         IF GreaterThan(confidence, best.highestConfidence)
         THEN [highestConfidence |-> confidence, index |-> n]
         ELSE best)

\* The text a template literal makes of x || ''.
TemplateText(x) ==
  IF ~Truthy(x) THEN <<>>
  ELSE CASE x.k = "str" -> x.v
         [] x.k = "num" -> NumChars(x.v)
         [] x.k = "bool" -> <<"t", "r", "u", "e">>
         [] OTHER -> <<"[object Object]">>

\* The note with the number of candidates taken for the number of samples: a
\* fault the statement of C13 has to detect.
ConsensusNoteOfSamples(maxCount, length) ==
  <<" ", "(", "B", "a", "s", "e", "d", " ", "o", "n", " ", "c", "o", "n",
  "s", "e", "n", "s", "u", "s", " ", "f", "r", "o", "m", " ">> \o
  NumChars(maxCount) \o <<"/">> \o NumChars(NUM_ANALYSES) \o <<" ", "a",
  "n", "a", "l", "y", "s", "e", "s", ")">>

\* The template literal " (Based on consensus from ${maxCount}/${results.length} analyses)"
ConsensusNote(maxCount, length) ==
  <<" ", "(", "B", "a", "s", "e", "d", " ", "o", "n", " ", "c", "o", "n",
  "s", "e", "n", "s", "u", "s", " ", "f", "r", "o", "m", " ">> \o
  NumChars(maxCount) \o <<"/">> \o NumChars(length) \o <<" ", "a", "n", "a",
  "l", "y", "s", "e", "s", ")">>

\* The template literal " (Consensus generated from ${results.length} analyses using AI)"
MergeNote(length) ==
  <<" ", "(", "C", "o", "n", "s", "e", "n", "s", "u", "s", " ", "g", "e",
  "n", "e", "r", "a", "t", "e", "d", " ", "f", "r", "o", "m", " ">> \o
  NumChars(length) \o <<" ", "a", "n", "a", "l", "y", "s", "e", "s", " ",
  "u", "s", "i", "n", "g", " ", "A", "I", ")">>

\* Can a property be set on x?  In module (strict) code setting one on a
\* primitive throws a TypeError.
IsPrimitive(x) == x.k \in {"bool", "num", "str"}

\* A reducer that returns a new object without the confidenceScore of the
\* chosen candidate: a fault the statement of C26 has to detect.
annotatedUnscored(results, index, written) ==
  Reduced(SetProp(written, KconfidenceScore, undefined), results)

\* consensusResult.assumptionsMade = ...: written is results[index] with the
\* note; the candidate in the list is the object that was written to.
annotated(results, index, written) ==
  Reduced(written, [results EXCEPT ![index] = written])

\* The end of findConsensusResultFallback: consensusResult is results[index].
consensusResult(results, index, maxCount) ==
  IF IsPrimitive(results[index]) THEN ReducerThrows(results)
  ELSE annotated(results, index,
         SetProp(results[index], KassumptionsMade,
           Str(trim(TemplateText(GetProp(results[index], KassumptionsMade))
                    \o ConsensusNote(maxCount, Len(results))))))

\* if (maxCount === 1): the tie-break by confidenceScore.
mostCommon(results, byCount) ==
  consensusResult(results,
    IF byCount.maxCount = 1
    THEN highestConfidence(results, 1,
           [highestConfidence |-> Num(0), index |-> byCount.index]).index
    ELSE byCount.index,
    byCount.maxCount)

\* findConsensusResultFallback(results); the body of the second variant's
\* findConsensusResult after its length check is the same code.
findConsensusResultFallback(results) ==
  IF \E n \in DOMAIN results : simplifiedItems(results[n]).threw
  THEN ReducerThrows(results)
  ELSE mostCommon(results,
         highestCount(resultCounts(results, 1, <<>>), 1,
                      [maxCount |-> 0, index |-> 1]))

\* findConsensusResultFallback of every list of two or more candidates a run
\* can collect, computed once.
FallbackResults ==
  {<<l, findConsensusResultFallback(l)>> :
     l \in UNION {[1..n -> Candidates] : n \in 2..NUM_ANALYSES}}

fallbackResult(results) ==
  TabulatedOr(FallbackResults, results, findConsensusResultFallback(results))

\* processedResponse.assumptionsMade = ..., for a merge of length candidates.
mergeNoted(processedResponse, length) ==
  SetProp(processedResponse, KassumptionsMade,
    Str(trim(TemplateText(GetProp(processedResponse, KassumptionsMade))
             \o MergeNote(length))))

\* mergeNoted of every object a merge reply can lead to, computed once.
MergeNoted ==
  {<< <<c, n>>, mergeNoted(c, n)>> :
     c \in {x \in Candidates : ~IsPrimitive(x)}, n \in 2..NUM_ANALYSES}

\* The end of findConsensusResultWithModel's try block: processedResponse is
\* what processGeminiResponse made of the merge reply.
mergedResult(results, processedResponse) ==
  IF ~Truthy(processedResponse) \/ IsPrimitive(processedResponse)
  THEN fallbackResult(results)
  ELSE Reduced(TabulatedOr(MergeNoted, <<processedResponse, Len(results)>>,
                           mergeNoted(processedResponse, Len(results))),
               results)

\* The values the model above is exact for: no array as a candidate (a
\* property set on an array is not representable), confidenceScore a number,
\* a boolean or absent, assumptionsMade a string, a number, a boolean or absent.
InReducerDomain(x) ==
  /\ x.k # "arr"
  /\ GetProp(x, KconfidenceScore).k \in {"undefined", "null", "bool", "num"}
  /\ GetProp(x, KassumptionsMade).k \in {"undefined", "null", "bool", "num", "str"}

\* The model of the parser and of the reducers is exact on these replies.
RepliesInDomain ==
  /\ \A t \in Texts : InParserDomain(t) /\ InParserDomain(cleanedResponse(t))
  /\ \A c \in Candidates : InReducerDomain(c)

(***************************************************************************)
(* getCalorieBreakdown                                                     *)
(***************************************************************************)
VARIABLES
  variant,          \* "merge": the action whose findConsensusResult asks the
                    \* model (lines 15-525); "plain": the other (lines 539-877)
  apiKey,           \* process.env.GEMINI_API_KEY is set (nothing changes it
                    \* during a run)
  pc,               \* where the run is: the call it awaits, or "done"
  i,                \* the loop counter of the sampling loop
  processing,       \* the reply processGeminiResponse is at work on: its raw
                    \* text and, once settled, the reply of its validation call
  cleaned,          \* the cleaned response that is out for validation
  analysisResults,  \* the candidates collected so far
  gate,             \* whether the gate call settled, what it did and what
                    \* validateFoodImage returned
  reducer,          \* how the reducer ran, the candidates it was given, and
                    \* what processGeminiResponse made of the merge reply
  calls,            \* model calls issued so far, by purpose
  outcome,          \* the promise getCalorieBreakdown returned
  scripted,         \* the two actions run on one script of replies: the
                    \* script and the promise each of them returned
  page              \* the state of the page that is open (home or history)

vars == <<variant, apiKey, pc, i, processing, cleaned, analysisResults, gate,
          reducer, calls, outcome, scripted, page>>

\* No reply is being processed; the raw text is out for validation; its
\* validation call has settled.
Idle == [text |-> <<>>, settled |-> FALSE, reply |-> Threw]
Validating(text) == [text |-> text, settled |-> FALSE, reply |-> Threw]
Validated(text, reply) == [text |-> text, settled |-> TRUE, reply |-> reply]

Pending == [state |-> "pending", val |-> undefined]
Resolved(val) == [state |-> "resolved", val |-> val]
Rejected == [state |-> "rejected", val |-> undefined]

NotReduced == [path |-> "none", input |-> <<>>, merged |-> undefined]

\* No script is being run.
NoScript ==
  [gate |-> Threw, samples |-> <<>>, validations |-> <<>>, merge |-> Threw,
   mergeValidation |-> Threw]
NotScripted == [ran |-> FALSE, script |-> NoScript, first |-> Pending, second |-> Pending]

\* No page is open.
NoPage == [open |-> "none"]

Init ==
  /\ RepliesInDomain
  /\ variant \in {"merge", "plain"}
  /\ scripted = NotScripted
  /\ page = NoPage
  /\ apiKey \in BOOLEAN
  /\ pc = "start"
  /\ i = 0
  /\ processing = Idle
  /\ cleaned = <<>>
  /\ analysisResults = <<>>
  /\ gate = [settled |-> FALSE, reply |-> Threw, isFood |-> FALSE]
  /\ reducer = NotReduced
  /\ calls = [gate |-> 0, sample |-> 0, validation |-> 0, merge |-> 0]
  /\ outcome = Pending

\* A run that ends with its promise left pending: a fault the statement of C19
\* has to detect.
FinishUnsettled(settled) ==
  /\ pc' = "done"
  /\ outcome' = Pending
  /\ cleaned' = <<>>
  /\ processing' = Idle

\* The run ends: the promise settles.
Finish(settled) ==
  /\ pc' = "done"
  /\ outcome' = settled
  /\ cleaned' = <<>>
  /\ processing' = Idle

\* The promise of an async call whose body did r.
Settled(r) == IF r.threw THEN Rejected ELSE Resolved(r.val)

\* The credential check left out: a fault the statement of C8 has to detect.
credentialNeverChecked(key) == FALSE

\* if (!apiKey) throw ..., caught by the catch of getCalorieBreakdown.
credentialMissing(key) == ~key

\* A loop that is left at the first accepted candidate: a fault the statement
\* of C4 has to detect.
loopEndsOnSuccess(next, results) == next < NUM_ANALYSES /\ Len(results) = 0

\* The loop test i < NUM_ANALYSES, with next the counter after i++.
loopContinues(next, results) == next < NUM_ANALYSES

\* if (analysisResults.length === 0)
noValidResults(results) == Len(results) = 0

\* findConsensusResult without its length check: a fault the statement of C10
\* has to detect.
findConsensusResultUnguarded(results, key) ==
  IF ~key
  THEN [await |-> FALSE, path |-> "noKey", r |-> findConsensusResultFallback(results)]
  ELSE [await |-> TRUE, path |-> "merging", r |-> Reduced(undefined, results)]

\* findConsensusResult of the first variant up to its first await, with key
\* what process.env.GEMINI_API_KEY holds: await tells that the merge call was
\* issued, r is what was done otherwise.
findConsensusResult(results, key) ==
  IF Len(results) = 1
  THEN [await |-> FALSE, path |-> "single", r |-> Reduced(results[1], results)]
  ELSE IF ~key
  THEN [await |-> FALSE, path |-> "noKey", r |-> fallbackResult(results)]
  ELSE [await |-> TRUE, path |-> "merging", r |-> Reduced(undefined, results)]

\* findConsensusResult of the second variant.
findConsensusResultPlain(results) ==
  IF Len(results) = 1 THEN Reduced(results[1], results)
  ELSE fallbackResult(results)

\* An entry that issues the first sample call without waiting for the gate: a
\* fault the statement of C20 has to detect.
StartSamplesAtOnce ==
  /\ pc = "start"
  /\ pc' = "sample"
  /\ calls' = [calls EXCEPT !.gate = @ + 1, !.sample = @ + 1]
  /\ UNCHANGED <<outcome, cleaned, processing>>
  /\ UNCHANGED <<page, scripted, variant, apiKey, i, analysisResults, gate, reducer>>

\* Has this variant of getCalorieBreakdown the call of validateFoodImage?  The
\* first has it (line 55); the second goes from the model set-up to the prompt.
hasGate(which) == which = "merge"

\* getCalorieBreakdown enters: the credential is read and the gate call issued,
\* or, in the variant without a gate, the first sample call.
Start ==
  /\ pc = "start"
  /\ IF credentialMissing(apiKey)
     THEN Finish(Resolved(FailedResult)) /\ UNCHANGED calls
     ELSE IF hasGate(variant)
     THEN /\ pc' = "gate"
          /\ calls' = [calls EXCEPT !.gate = @ + 1]
          /\ UNCHANGED <<outcome, cleaned, processing>>
     ELSE /\ pc' = "sample"
          /\ calls' = [calls EXCEPT !.sample = @ + 1]
          /\ UNCHANGED <<outcome, cleaned, processing>>
  /\ UNCHANGED <<page, scripted, variant, apiKey, i, analysisResults, gate, reducer>>

\* A gate whose answer is recorded and not acted on, the sampling starting in
\* any case: a fault the statement of C25 has to detect.
GateSettlesUnheeded(reply) ==
  /\ pc = "gate"
  /\ gate' = [settled |-> TRUE, reply |-> reply, isFood |-> validateFoodImage(reply)]
  /\ pc' = "sample"
  /\ calls' = [calls EXCEPT !.sample = @ + 1]
  /\ i' = 0
  /\ UNCHANGED <<outcome, cleaned, processing>>
  /\ UNCHANGED <<page, scripted, variant, apiKey, analysisResults, reducer>>

\* The gate call settles; on a food image the first sample call is issued.
GateSettles(reply) ==
  /\ pc = "gate"
  /\ LET isFood == validateFoodImage(reply)
     IN /\ gate' = [settled |-> TRUE, reply |-> reply, isFood |-> isFood]
        /\ IF ~isFood
           THEN Finish(Resolved(NotFoodResult)) /\ UNCHANGED calls
           ELSE /\ pc' = "sample"
                /\ calls' = [calls EXCEPT !.sample = @ + 1]
                /\ UNCHANGED <<outcome, cleaned, processing>>
  /\ i' = 0
  /\ UNCHANGED <<page, scripted, variant, apiKey, analysisResults, reducer>>

\* The reducer has done r on its input results, by the given path, and the
\* run ends with the promise settled as given.
Reduces(r, settled, path, results, c) ==
  /\ Finish(settled)
  /\ analysisResults' = r.results
  /\ reducer' = [path |-> path, input |-> results, merged |-> undefined]
  /\ calls' = c

\* A throw inside the try block of getCalorieBreakdown is caught.
Caught(r) == IF r.threw THEN Resolved(FailedResult) ELSE Resolved(r.val)

\* How the second variant's reducer ended: it returned, or its throw was caught.
plainPath(r) == IF r.threw THEN "caught" ELSE "plain"

\* The first variant's findConsensusResult has run up to its first await (f).
ReducesOrMerges(f, results, c) ==
  IF f.await
  THEN /\ pc' = "merge"
       /\ calls' = [c EXCEPT !.merge = @ + 1]
       /\ cleaned' = <<>>
       /\ processing' = Idle
       /\ analysisResults' = results
       /\ reducer' = [path |-> f.path, input |-> results, merged |-> undefined]
       /\ UNCHANGED outcome
  ELSE Reduces(f.r, Settled(f.r), f.path, results, c)

\* return consensusResult: the reducer runs on the candidates.  In the first
\* variant its promise is returned without await, so its rejection is the
\* caller's; in the second a throw is caught by getCalorieBreakdown.
Reduce(results, c) ==
  IF variant = "plain"
  THEN Reduces(findConsensusResultPlain(results),
               Caught(findConsensusResultPlain(results)),
               plainPath(findConsensusResultPlain(results)), results, c)
  ELSE ReducesOrMerges(findConsensusResult(results, apiKey), results, c)

\* The end of one pass of the sampling loop: i++, the loop test and, when the
\* loop is left, the code after it.
Advance(results, c) ==
  /\ i' = i + 1
  /\ IF loopContinues(i + 1, results)
     THEN /\ pc' = "sample"
          /\ calls' = [c EXCEPT !.sample = @ + 1]
          /\ analysisResults' = results
          /\ cleaned' = <<>>
          /\ processing' = Idle
          /\ UNCHANGED <<outcome, reducer>>
     ELSE IF noValidResults(results)
     THEN /\ Finish(Resolved(NoValidResult))
          /\ analysisResults' = results
          /\ calls' = c
          /\ UNCHANGED reducer
     ELSE Reduce(results, c)

\* A sample call that is issued once more when it throws for the first time: a
\* fault the statement of C23 has to detect.
SampleSettlesRetrying(reply) ==
  /\ pc = "sample"
  /\ IF reply.threw /\ calls.sample = i + 1
     THEN /\ calls' = [calls EXCEPT !.sample = @ + 1]
          /\ UNCHANGED <<pc, i, cleaned, processing, analysisResults, reducer, outcome>>
     ELSE IF reply.threw
     THEN Advance(analysisResults, calls)
     ELSE /\ pc' = "validate"
          /\ cleaned' = Tabulated(CleanedResponses, reply.text)
          /\ processing' = Validating(reply.text)
          /\ calls' = [calls EXCEPT !.validation = @ + 1]
          /\ UNCHANGED <<i, analysisResults, reducer, outcome>>
  /\ UNCHANGED <<page, scripted, variant, apiKey, gate>>

\* A sample call settles: a throw drops the sample, a text is cleaned and sent
\* for validation.
SampleSettles(reply) ==
  /\ pc = "sample"
  /\ IF reply.threw
     THEN Advance(analysisResults, calls)
     ELSE /\ pc' = "validate"
          /\ cleaned' = Tabulated(CleanedResponses, reply.text)
          /\ processing' = Validating(reply.text)
          /\ calls' = [calls EXCEPT !.validation = @ + 1]
          /\ UNCHANGED <<i, analysisResults, reducer, outcome>>
  /\ UNCHANGED <<page, scripted, variant, apiKey, gate>>

\* A collection that puts the newest candidate first: a fault the statement of
\* C21 has to detect.
unshifted(results, processedResponse) ==
  IF Truthy(processedResponse) THEN <<processedResponse>> \o results ELSE results

\* if (processedResponse) analysisResults.push(processedResponse)
pushed(results, processedResponse) ==
  IF Truthy(processedResponse) THEN Append(results, processedResponse) ELSE results

\* The validation call of a sample settles: a truthy result is a candidate.
ValidationSettles(reply) ==
  /\ pc = "validate"
  /\ Advance(pushed(analysisResults,
                    Tabulated(ProcessedResponses, <<cleaned, reply>>)), calls)
  /\ UNCHANGED <<page, scripted, variant, apiKey, gate>>

\* The merge call of findConsensusResultWithModel settles: a throw is caught
\* and answered by the fallback, a text is cleaned and sent for validation.
MergeSettles(reply) ==
  /\ pc = "merge"
  /\ IF reply.threw
     THEN Reduces(fallbackResult(analysisResults),
                  Settled(fallbackResult(analysisResults)),
                  "callFailed", reducer.input, calls)
     ELSE /\ pc' = "mergeValidate"
          /\ cleaned' = Tabulated(CleanedResponses, reply.text)
          /\ processing' = Validating(reply.text)
          /\ calls' = [calls EXCEPT !.validation = @ + 1]
          /\ UNCHANGED <<analysisResults, reducer, outcome>>
  /\ UNCHANGED <<page, scripted, variant, apiKey, i, gate>>

\* How findConsensusResultWithModel ended, given what processGeminiResponse
\* made of the merge reply.
mergePath(processedResponse) ==
  IF ~Truthy(processedResponse) THEN "discarded"
  ELSE IF IsPrimitive(processedResponse) THEN "unwritable"
  ELSE "merged"

\* The merge reply has been processed: findConsensusResultWithModel ends, and
\* with it the run.
MergeEnds(r, processedResponse) ==
  /\ Finish(Settled(r))
  /\ analysisResults' = r.results
  /\ reducer' = [path |-> mergePath(processedResponse), input |-> reducer.input,
                  merged |-> processedResponse]
  /\ UNCHANGED calls

MergeValidated(processedResponse) ==
  MergeEnds(mergedResult(analysisResults, processedResponse), processedResponse)

\* The validation call of the merge reply settles.
MergeValidationSettles(reply) ==
  /\ pc = "mergeValidate"
  /\ MergeValidated(Tabulated(ProcessedResponses, <<cleaned, reply>>))
  /\ UNCHANGED <<page, scripted, variant, apiKey, i, gate>>

Next ==
  \/ Start
  \/ \E reply \in GateReplies : GateSettles(reply)
  \/ \E reply \in Replies : SampleSettles(reply)
  \/ \E reply \in Replies : ValidationSettles(reply)
  \/ \E reply \in Replies : MergeSettles(reply)
  \/ \E reply \in Replies : MergeValidationSettles(reply)

Spec == Init /\ [][Next]_vars

\* The run with every call that is out settling in the end, and the code
\* between two awaits running to its end: a step that can be taken is taken.
\* A call throws or returns prose, a number or a reply of the asked shape.
LiveReplies ==
  {Threw, Returned(ProseText), Returned(NumberText),
   Returned(JSONstringify(WellFormed(1)))}

LiveNext ==
  \/ Start
  \/ \E reply \in GateReplies : GateSettles(reply)
  \/ \E reply \in LiveReplies : SampleSettles(reply)
  \/ \E reply \in LiveReplies : ValidationSettles(reply)
  \/ \E reply \in LiveReplies : MergeSettles(reply)
  \/ \E reply \in LiveReplies : MergeValidationSettles(reply)

LiveSpec == Init /\ [][LiveNext]_vars /\ WF_vars(LiveNext)

TypeOK ==
  /\ pc \in {"start", "gate", "sample", "validate", "merge", "mergeValidate", "done"}
  /\ i \in 0..NUM_ANALYSES
  /\ Len(analysisResults) <= NUM_ANALYSES
  /\ outcome.state \in {"pending", "resolved", "rejected"}

(***************************************************************************)
(* findConsensusResultFallback on its own                                  *)
(***************************************************************************)
\* The lists (results: CalorieBreakdownResponse[]) the reducer is run on: 2 to
\* NUM_ANALYSES candidates.
FallbackInputs == UNION {[1..n -> FallbackCandidates] : n \in 2..NUM_ANALYSES}

\* A list of candidates is about to be handed to findConsensusResultFallback.
FallbackInit ==
  /\ \A c \in FallbackCandidates : InReducerDomain(c)
  /\ variant = "plain"
  /\ scripted = NotScripted
  /\ page = NoPage
  /\ apiKey = FALSE
  /\ pc = "fallback"
  /\ i = NUM_ANALYSES
  /\ processing = Idle
  /\ cleaned = <<>>
  /\ analysisResults \in FallbackInputs
  /\ gate = [settled |-> FALSE, reply |-> Threw, isFood |-> FALSE]
  /\ reducer = NotReduced
  /\ calls = [gate |-> 0, sample |-> 0, validation |-> 0, merge |-> 0]
  /\ outcome = Pending

\* findConsensusResultFallback(results) runs: outcome is what it returned (or
\* that it threw), analysisResults the candidates as it left them.
FallbackReturns(r, results) ==
  /\ pc' = "done"
  /\ outcome' = Settled(r)
  /\ analysisResults' = r.results
  /\ reducer' = [path |-> "fallback", input |-> results, merged |-> undefined]

FallbackRuns ==
  /\ pc = "fallback"
  /\ FallbackReturns(findConsensusResultFallback(analysisResults), analysisResults)
  /\ UNCHANGED <<page, scripted, variant, apiKey, i, processing, cleaned, gate, calls>>

FallbackNext == FallbackRuns

FallbackSpec == FallbackInit /\ [][FallbackNext]_vars

(***************************************************************************)
(* processGeminiResponse on its own                                        *)
(***************************************************************************)
\* Raw texts next to those of the run: minified JSON of one and of two
\* properties, the first of them inside a FENCE block, an object with a trailing
\* comma, one with a trailing comma in an array too, and a key with a comma for
\* its value.
SingleKeyText == <<"{", "\"", "a", "\"", ":", "1", "}">>
TwoKeysText ==
  <<"{", "\"", "a", "\"", ":", "1", ",", "\"", "b", "\"", ":", "2", "}">>
FencedText == FenceJson \o <<"\n">> \o SingleKeyText \o <<"\n">> \o Fence
TrailingCommaText ==
  <<"{", "\"", "a", "\"", ":", " ", "1", ",", "}">>
BracketCommaText ==
  <<"{", "\"", "a", "\"", ":", "[", "1", ",", "]", ",", "}">>
MissingValueText ==
  <<"\"", "t", "o", "t", "a", "l", "E", "s", "t", "i", "m", "a", "t", "e",
  "d", "C", "a", "l", "o", "r", "i", "e", "s", "\"", ",", "}">>

RepairTexts ==
  Texts \cup {SingleKeyText, TwoKeysText, FencedText, TrailingCommaText,
              BracketCommaText, MissingValueText}

\* What the validation call may do.
RepairReplies == {Threw} \cup {Returned(t) : t \in RepairTexts}

\* The model of the parser is exact on these texts.
RepairTextsInDomain ==
  \A t \in RepairTexts :
    /\ InParserDomain(t)
    /\ InParserDomain(cleanedResponse(t))
    /\ InParserDomain(cleanedValidation(t))

\* processGeminiResponse is about to be run on a raw text.
RepairInit ==
  /\ RepairTextsInDomain
  /\ variant = "merge"
  /\ scripted = NotScripted
  /\ page = NoPage
  /\ apiKey = TRUE
  /\ pc = "repair"
  /\ i = 0
  /\ processing \in {Validating(t) : t \in RepairTexts}
  /\ cleaned = <<>>
  /\ analysisResults = <<>>
  /\ gate = [settled |-> FALSE, reply |-> Threw, isFood |-> FALSE]
  /\ reducer = NotReduced
  /\ calls = [gate |-> 0, sample |-> 0, validation |-> 0, merge |-> 0]
  /\ outcome = Pending

\* The fences are stripped, the braces extracted, the commentary removed and
\* the missing values patched.
RepairPatches ==
  /\ pc = "repair"
  /\ pc' = "patched"
  /\ cleaned' = patchedResponse(processing.text)
  /\ UNCHANGED <<page, scripted, variant, apiKey, i, processing, analysisResults, gate, reducer,
                 calls, outcome>>

\* The trailing commas are stripped and the cleaned response is sent for
\* validation.
RepairStrips ==
  /\ pc = "patched"
  /\ pc' = "validate"
  /\ cleaned' = StripTrailingCommas(cleaned)
  /\ calls' = [calls EXCEPT !.validation = @ + 1]
  /\ UNCHANGED <<page, scripted, variant, apiKey, i, processing, analysisResults, gate, reducer,
                 outcome>>

\* The validation call settles and processGeminiResponse returns.
RepairValidates(reply) ==
  /\ pc = "validate"
  /\ pc' = "done"
  /\ processing' = Validated(processing.text, reply)
  /\ outcome' = Resolved(processValidated(cleaned, reply))
  /\ UNCHANGED <<page, scripted, variant, apiKey, i, cleaned, analysisResults, gate, reducer,
                 calls>>

RepairNext ==
  \/ RepairPatches
  \/ RepairStrips
  \/ \E reply \in RepairReplies : RepairValidates(reply)

RepairSpec == RepairInit /\ [][RepairNext]_vars

(***************************************************************************)
(* validateFoodImage on its own                                            *)
(***************************************************************************)
\* The longest run of whitespace around an answer of the gate call.
MaxPad == 1

Pads == UNION {[1..n -> Whitespace] : n \in 0..MaxPad}

\* "true" in every mix of upper and lower case.
TrueSpellings ==
  {<<a, b, c, d>> : a \in {"t", "T"}, b \in {"r", "R"},
                    c \in {"u", "U"}, d \in {"e", "E"}}

\* Answers that are not "true".
OtherAnswers ==
  { <<>>,
    <<"f", "a", "l", "s", "e">>,
    <<"y", "e", "s">>,
    <<"t", "r", "u", "e", ".">>,
    <<"t", "r", "u", "e", "e">>,
    <<"t", "r", "u">>,
    <<"t", "r", " ", "u", "e">>,
    <<"\"", "t", "r", "u", "e", "\"">>,
    <<"i", "s", " ", "t", "r", "u", "e">> }

\* What the gate call may do: throw, or return an answer with whitespace
\* around it.
GateAnswers ==
  {Threw} \cup
  {Returned(l \o c \o r) : l \in Pads, c \in TrueSpellings \cup OtherAnswers,
                           r \in Pads}

\* The gate call is out, with what it is going to do.
GateInit ==
  /\ variant = "merge"
  /\ scripted = NotScripted
  /\ page = NoPage
  /\ apiKey = TRUE
  /\ pc = "gate"
  /\ i = 0
  /\ processing = Idle
  /\ cleaned = <<>>
  /\ analysisResults = <<>>
  /\ gate \in {[settled |-> FALSE, reply |-> r, isFood |-> FALSE] : r \in GateAnswers}
  /\ reducer = NotReduced
  /\ calls = [gate |-> 1, sample |-> 0, validation |-> 0, merge |-> 0]
  /\ outcome = Pending

\* validateFoodImage returns.
GateReturns ==
  /\ pc = "gate"
  /\ ~gate.settled
  /\ pc' = "done"
  /\ gate' = [settled |-> TRUE, reply |-> gate.reply,
              isFood |-> validateFoodImage(gate.reply)]
  /\ UNCHANGED <<page, scripted, variant, apiKey, i, processing, cleaned, analysisResults,
                 reducer, calls, outcome>>

GateNext == GateReturns

GateSpec == GateInit /\ [][GateNext]_vars

(***************************************************************************)
(* The two getCalorieBreakdown actions on one script of replies            *)
(***************************************************************************)
\* What processGeminiResponse makes of a returned text when its validation
\* call does as given.
processed(text, validation) ==
  Tabulated(ProcessedResponses, <<Tabulated(CleanedResponses, text), validation>>)

\* The sampling loop from the pass with counter next on: the reply of a call
\* is the one the script holds for that call.
RECURSIVE collected(_, _, _)
collected(script, next, results) ==
  IF ~loopContinues(next, results) THEN results
  ELSE collected(script, next + 1,
         IF script.samples[next + 1].threw THEN results
         ELSE pushed(results, processed(script.samples[next + 1].text,
                                        script.validations[next + 1])))

\* The reduction of the first action: findConsensusResult, its merge call and
\* the processing of the merge reply; the promise is returned as it is.
reducedByMerge(script, key, results) ==
  IF ~findConsensusResult(results, key).await
  THEN Settled(findConsensusResult(results, key).r)
  ELSE IF script.merge.threw THEN Settled(fallbackResult(results))
  ELSE Settled(mergedResult(results,
                 processed(script.merge.text, script.mergeValidation)))

\* The code after the loop.
reducedBy(which, script, key, results) ==
  IF noValidResults(results) THEN Resolved(NoValidResult)
  ELSE IF which = "plain" THEN Caught(findConsensusResultPlain(results))
  ELSE reducedByMerge(script, key, results)

\* getCalorieBreakdown of the given action, as a function of the credential
\* and of what every model call does.
getCalorieBreakdown(which, key, script) ==
  IF credentialMissing(key) THEN Resolved(FailedResult)
  ELSE IF hasGate(which) /\ ~validateFoodImage(script.gate)
  THEN Resolved(NotFoodResult)
  ELSE reducedBy(which, script, key, collected(script, 0, <<>>))

\* The scripts: a reply for the gate call, one for each sample call and its
\* validation call, one for the merge call and its validation call.
ScriptGateReplies ==
  {Threw, Returned(<<"t", "r", "u", "e">>), Returned(<<"f", "a", "l", "s", "e">>)}
ScriptSampleReplies ==
  {Threw, Returned(JSONstringify(WellFormed(1))), Returned(NumberText)}
ScriptValidationReplies == {Threw, Returned(JSONstringify(WellFormed(MaxCalories)))}
ScriptMergeReplies == {Threw, Returned(JSONstringify(WellFormed(1)))}

Scripts ==
  {[gate |-> g, samples |-> s, validations |-> v, merge |-> m,
    mergeValidation |-> w] :
     g \in ScriptGateReplies,
     s \in [1..NUM_ANALYSES -> ScriptSampleReplies],
     v \in [1..NUM_ANALYSES -> ScriptValidationReplies],
     m \in ScriptMergeReplies,
     w \in ScriptMergeReplies}

PairInit ==
  /\ RepliesInDomain
  /\ variant = "merge"
  /\ apiKey \in BOOLEAN
  /\ pc = "pair"
  /\ i = 0
  /\ processing = Idle
  /\ cleaned = <<>>
  /\ analysisResults = <<>>
  /\ gate = [settled |-> FALSE, reply |-> Threw, isFood |-> FALSE]
  /\ reducer = NotReduced
  /\ calls = [gate |-> 0, sample |-> 0, validation |-> 0, merge |-> 0]
  /\ outcome = Pending
  /\ scripted \in {[ran |-> FALSE, script |-> s, first |-> Pending,
                    second |-> Pending] : s \in Scripts}
  /\ page = NoPage

\* Both actions run on the script.
BothRun ==
  /\ pc = "pair"
  /\ pc' = "done"
  /\ scripted' = [scripted EXCEPT
                    !.ran = TRUE,
                    !.first = getCalorieBreakdown("merge", apiKey, scripted.script),
                    !.second = getCalorieBreakdown("plain", apiKey, scripted.script)]
  /\ UNCHANGED <<variant, apiKey, i, processing, cleaned, analysisResults, gate,
                 reducer, calls, outcome, page>>

PairNext == BothRun

PairSpec == PairInit /\ [][PairNext]_vars

(***************************************************************************)
(* The home page: handleSubmit                                             *)
(***************************************************************************)
\* The most invocations of handleSubmit in a session.
MaxSubmits == 3

\* A result whose error is the empty string.
EmptyErrorResult == Obj(<<Prop(Kerror, Str(<<>>))>>)

\* What the promise of getCalorieBreakdown may settle to: a rejection, the
\* three error results, a well-formed result, a bare number, an empty error.
PipelineOutcomes ==
  {Rejected, Resolved(NotFoodResult), Resolved(NoValidResult),
   Resolved(FailedResult), Resolved(Num(5)), Resolved(EmptyErrorResult)}
  \cup {Resolved(WellFormed(n)) : n \in 1..MaxCalories}

\* useState(...): the page as it is first rendered.  at tells where the last
\* handleSubmit is ("fresh": none has passed its guard), result what the last
\* call of getCalorieBreakdown settled to; invoked and called count the
\* invocations of handleSubmit and the calls of getCalorieBreakdown.
HomeFresh ==
  [open |-> "home", selectedImage |-> FALSE, isLoading |-> FALSE,
   calorieData |-> null, error |-> null, at |-> "fresh", result |-> Pending,
   invoked |-> 0, called |-> 0]

HomeInit ==
  /\ variant = "merge"
  /\ scripted = NotScripted
  /\ apiKey = TRUE
  /\ pc = "home"
  /\ i = 0
  /\ processing = Idle
  /\ cleaned = <<>>
  /\ analysisResults = <<>>
  /\ gate = [settled |-> FALSE, reply |-> Threw, isFood |-> FALSE]
  /\ reducer = NotReduced
  /\ calls = [gate |-> 0, sample |-> 0, validation |-> 0, merge |-> 0]
  /\ outcome = Pending
  /\ page = HomeFresh

\* Nothing but the page changes.
HomeOnly ==
  UNCHANGED <<variant, apiKey, pc, i, processing, cleaned, analysisResults, gate,
              reducer, calls, outcome, scripted>>

\* onImageSelect={setSelectedImage}: an image is selected or cleared.
SelectImage(file) ==
  /\ page.selectedImage # file
  /\ page' = [page EXCEPT !.selectedImage = file]
  /\ HomeOnly

\* setIsLoading(true); setError(null); setCalorieData(null)
submitted(p) ==
  [p EXCEPT !.isLoading = TRUE, !.error = null, !.calorieData = null,
            !.result = Pending, !.at = "converting"]

\* The catch block of handleSubmit.
caught(p) ==
  [p EXCEPT !.error = Str(<<"Failed to process image. Please try again.">>)]

\* A handler that stores every result as calorie data: a fault the statement of
\* C28 has to detect.
resultStoredAlways(p, result) ==
  IF Truthy(GetProp(result, Kerror))
  THEN [p EXCEPT !.error = GetProp(result, Kerror), !.calorieData = result]
  ELSE [p EXCEPT !.calorieData = result]

\* if (result.error) setError(result.error) else setCalorieData(result)
resultStored(p, result) ==
  IF Truthy(GetProp(result, Kerror))
  THEN [p EXCEPT !.error = GetProp(result, Kerror)]
  ELSE [p EXCEPT !.calorieData = result]

\* The finally block: setIsLoading(false).
finished(p) == [p EXCEPT !.isLoading = FALSE, !.at = "settled"]

\* handleSubmit is invoked.  The button is disabled while isLoading (line 957),
\* so no invocation starts while another is at work; without an image the
\* handler returns at once.
HandleSubmit ==
  /\ ~page.isLoading
  /\ page.invoked < MaxSubmits
  /\ page' = IF ~page.selectedImage
             THEN [page EXCEPT !.invoked = @ + 1]
             ELSE [submitted(page) EXCEPT !.invoked = @ + 1]
  /\ HomeOnly

\* fileToBase64 settles: on success getCalorieBreakdown is called, a rejection
\* is caught.
ConversionSettles(ok) ==
  /\ page.at = "converting"
  /\ page' = IF ok
             THEN [page EXCEPT !.at = "calling", !.called = @ + 1]
             ELSE finished(caught(page))
  /\ HomeOnly

\* getCalorieBreakdown settles.
CallSettles(settled) ==
  /\ page.at = "calling"
  /\ page' = finished(IF settled.state = "rejected"
                      THEN caught([page EXCEPT !.result = settled])
                      ELSE resultStored([page EXCEPT !.result = settled],
                                        settled.val))
  /\ HomeOnly

HomeNext ==
  \/ \E file \in BOOLEAN : SelectImage(file)
  \/ HandleSubmit
  \/ \E ok \in BOOLEAN : ConversionSettles(ok)
  \/ \E settled \in PipelineOutcomes : CallSettles(settled)

HomeSpec == HomeInit /\ [][HomeNext]_vars

(***************************************************************************)
(* The history page: handleDelete                                          *)
(***************************************************************************)
\* The entries the user has in storage when the page opens, and the most
\* deleteHistoryItem calls that are out at one time.
MaxItems == 3
MaxDeletes == 2

\* useState([]), useState(true): the page as it is first rendered, with the
\* user signed in.  stored is the history collection; fetched is what
\* getUserHistory returned; deleting holds, for every handleDelete that awaits
\* deleteHistoryItem, its id and the history of the render it was started
\* from; succeeded are the ids whose deleteHistoryItem has resolved.
HistoryFresh ==
  [open |-> "history", isLoading |-> TRUE, history |-> <<>>, fetched |-> <<>>,
   stored |-> 1..MaxItems, deleting |-> {}, succeeded |-> {}]

HistoryInit ==
  /\ variant = "merge"
  /\ scripted = NotScripted
  /\ apiKey = TRUE
  /\ pc = "history"
  /\ i = 0
  /\ processing = Idle
  /\ cleaned = <<>>
  /\ analysisResults = <<>>
  /\ gate = [settled |-> FALSE, reply |-> Threw, isFood |-> FALSE]
  /\ reducer = NotReduced
  /\ calls = [gate |-> 0, sample |-> 0, validation |-> 0, merge |-> 0]
  /\ outcome = Pending
  /\ page = HistoryFresh

\* Nothing but the history page and its storage changes.
HistoryOnly ==
  UNCHANGED <<variant, apiKey, pc, i, processing, cleaned, analysisResults, gate,
              reducer, calls, outcome, scripted>>

\* The entries of storage as getUserHistory lists them (timestamp descending:
\* the larger id is the later entry).
RECURSIVE listed(_, _)
listed(ids, from) ==
  IF from = 0 THEN <<>>
  ELSE IF from \in ids THEN <<from>> \o listed(ids, from - 1)
  ELSE listed(ids, from - 1)

\* history.filter(item => item.id !== id)
RECURSIVE filtered(_, _)
filtered(items, id) ==
  IF items = <<>> THEN <<>>
  ELSE IF Head(items) = id THEN filtered(Tail(items), id)
  ELSE <<Head(items)>> \o filtered(Tail(items), id)

\* fetchHistory settles: the list is shown, or the fetch failed and the empty
\* list is.
FetchSettles(ok) ==
  /\ page.isLoading
  /\ page' = IF ok
             THEN [page EXCEPT !.isLoading = FALSE,
                               !.history = listed(page.stored, MaxItems),
                               !.fetched = listed(page.stored, MaxItems)]
             ELSE [page EXCEPT !.isLoading = FALSE]
  /\ HistoryOnly

\* The delete button of a shown entry is pressed: handleDelete(id) calls
\* deleteHistoryItem and awaits it.  Its closure holds the history of the
\* render the button belongs to.
DeletePressed(id) ==
  /\ ~page.isLoading
  /\ \E n \in DOMAIN page.history : page.history[n] = id
  /\ Cardinality(page.deleting) < MaxDeletes
  /\ \A d \in page.deleting : d.id # id
  /\ page' = [page EXCEPT !.deleting = @ \cup {[id |-> id, history |-> page.history]}]
  /\ HistoryOnly

\* deleteHistoryItem settles.  Resolved: the document is gone and
\* setHistory(history.filter(...)) runs on the history of the closure.
\* Rejected: the catch block logs, and nothing changes.
DeleteSettles(d, ok) ==
  /\ d \in page.deleting
  /\ page' = IF ok
             THEN [page EXCEPT !.deleting = @ \ {d},
                               !.stored = @ \ {d.id},
                               !.succeeded = @ \cup {d.id},
                               !.history = filtered(d.history, d.id)]
             ELSE [page EXCEPT !.deleting = @ \ {d}]
  /\ HistoryOnly

HistoryNext ==
  \/ \E ok \in BOOLEAN : FetchSettles(ok)
  \/ \E id \in 1..MaxItems : DeletePressed(id)
  \/ \E d \in page.deleting, ok \in BOOLEAN : DeleteSettles(d, ok)

HistorySpec == HistoryInit /\ [][HistoryNext]_vars

(***************************************************************************)
(* The claims                                                              *)
(***************************************************************************)
\* The promise has resolved to a result whose error is the given message, with
\* totalEstimatedCalories = 0 and items = [].
ResolvedWithError(message) ==
  /\ outcome.state = "resolved"
  /\ GetProp(outcome.val, Kerror) = Str(<<message>>)
  /\ GetProp(outcome.val, KtotalEstimatedCalories) = Num(0)
  /\ GetProp(outcome.val, Kitems) = Arr(<<>>)

\* The gate call has settled and validateFoodImage returned true.
GatePassed == gate.settled /\ gate.isFood

\* The reducer was invoked and what getCalorieBreakdown returned is its output.
ReducerOutputReturned ==
  /\ pc = "done"
  /\ reducer.path \notin {"none", "caught"}
  /\ outcome.state = "resolved"

\* C1: every call of getCalorieBreakdown resolves and never throws or rejects
\* to the caller, whatever the model calls do: a finished run has a resolved
\* promise.
C1_NeverRejects == pc = "done" => outcome.state = "resolved"

\* C2: whenever getCalorieBreakdown returns the reducer's output, the result
\* has error undefined and items defined.
C2_ReducerOutputShape ==
  ReducerOutputReturned =>
    /\ GetProp(outcome.val, Kerror) = undefined
    /\ GetProp(outcome.val, Kitems) # undefined

\* C3: if none of the 5 samples yields a candidate, the run returns the fixed
\* "multiple attempts" error result with zero calories and no items, and the
\* reducer is not invoked (no merge call either).
C3_NoCandidates ==
  (pc = "done" /\ GatePassed /\ analysisResults = <<>>) =>
    /\ ResolvedWithError("Failed to get any valid calorie breakdown from AI after multiple attempts.")
    /\ reducer.path = "none"
    /\ calls.merge = 0

\* A run with the gate passed and five samples, of which some threw and the
\* others were discarded after validation, has finished without a candidate.
C3_Witness ==
  /\ pc = "done" /\ GatePassed /\ analysisResults = <<>>
  /\ calls.sample = 5
  /\ calls.validation \in 1..4

\* C4: with the credential present and the gate passed, exactly 5 sample calls
\* are issued by the time the run ends, and never more at any time: neither a
\* throwing or discarded sample nor an accepted one ends the loop early.
C4_FiveSamples ==
  /\ calls.sample <= 5
  /\ (pc = "done" /\ apiKey /\ GatePassed) => calls.sample = 5

\* A finished run in which two samples threw, one was discarded and two were
\* accepted.
C4_Witness ==
  /\ pc = "done" /\ apiKey /\ GatePassed
  /\ calls.sample = 5
  /\ calls.validation = 3
  /\ Len(analysisResults) = 2

\* C5: when validateFoodImage returns false, the run returns the fixed "not a
\* food photo" error result with totalEstimatedCalories = 0 and items = [].
C5_NotFood ==
  (pc = "done" /\ gate.settled /\ ~gate.isFood) =>
    ResolvedWithError("The uploaded image does not appear to be a food or meal photo. Please upload an image of your meal.")

\* A run whose gate call answered "false" has finished.
C5_Witness ==
  /\ pc = "done" /\ gate.settled /\ ~gate.isFood
  /\ gate.reply = Returned(<<"f", "a", "l", "s", "e">>)

\* C6: if the gate's model call throws, validateFoodImage returns true and the
\* run goes on to the 5 sample calls instead of returning the not-food error.
C6_GateFailsOpen ==
  (gate.settled /\ gate.reply.threw) =>
    /\ gate.isFood
    /\ calls.sample >= 1
    /\ pc = "done" =>
         /\ calls.sample = 5
         /\ ~ResolvedWithError("The uploaded image does not appear to be a food or meal photo. Please upload an image of your meal.")

\* A run whose gate call threw has finished after its five sample calls.
C6_Witness ==
  /\ pc = "done" /\ gate.settled /\ gate.reply.threw
  /\ calls.sample = 5

\* C7: if the gate's model call returns text that, trimmed and lower-cased, is
\* neither "true" nor "false", the gate fails open: validateFoodImage returns
\* true.
C7_MalformedAnswerFailsOpen ==
  ( /\ gate.settled
    /\ ~gate.reply.threw
    /\ toLowerCase(trim(gate.reply.text))
         \notin { <<"t", "r", "u", "e">>, <<"f", "a", "l", "s", "e">> } )
  => gate.isFood

\* C8: with the credential absent no model call is ever issued, and the run
\* returns a result that bears an error, with totalEstimatedCalories = 0 and
\* items = [].
C8_NoCredential ==
  ~apiKey =>
    /\ calls = [gate |-> 0, sample |-> 0, validation |-> 0, merge |-> 0]
    /\ pc = "done" =>
         /\ outcome.state = "resolved"
         /\ GetProp(outcome.val, Kerror).k = "str"
         /\ Truthy(GetProp(outcome.val, Kerror))
         /\ GetProp(outcome.val, KtotalEstimatedCalories) = Num(0)
         /\ GetProp(outcome.val, Kitems) = Arr(<<>>)

\* A run without the credential has finished.
C8_Witness == pc = "done" /\ ~apiKey /\ outcome.state = "resolved"

\* C9: when 2 or more candidates reach the reducer and the merge is unavailable
\* (no credential) or fails (the merge call throws, or its reply is discarded),
\* the run returns exactly what findConsensusResultFallback returns for these
\* candidates, and no error reaches the caller.
C9_FallbackOnMergeFailure ==
  ( /\ pc = "done"
    /\ reducer.path \in {"noKey", "callFailed", "discarded"}
    /\ Len(reducer.input) >= 2 )
  => /\ outcome.state = "resolved"
     /\ ~findConsensusResultFallback(reducer.input).threw
     /\ outcome.val = findConsensusResultFallback(reducer.input).val

\* C10: given exactly one candidate, the reducer returns that candidate
\* unchanged: no merge call is made, and neither the result nor the candidate
\* in the list has a note added to assumptionsMade.
C10_SingleCandidate ==
  (pc = "done" /\ reducer.path # "none" /\ Len(reducer.input) = 1) =>
    /\ outcome = Resolved(reducer.input[1])
    /\ analysisResults = reducer.input
    /\ calls.merge = 0

\* The first variant has finished on a single well-formed candidate.
C10_Witness ==
  /\ pc = "done" /\ variant = "merge"
  /\ reducer.path = "single"
  /\ Len(reducer.input) = 1
  /\ GetProp(reducer.input[1], KassumptionsMade) = Str(<<"s">>)

\* The signature of a candidate: its mealDescription, its
\* totalEstimatedCalories and the name and calories of its items, in order.
ItemPairs(items) ==
  IF items.k # "arr" THEN items
  ELSE Arr([n \in DOMAIN items.v |->
              Arr(<<GetProp(items.v[n], KitemName), GetProp(items.v[n], Kcalories)>>)])

Signature(c) ==
  <<GetProp(c, KmealDescription), GetProp(c, KtotalEstimatedCalories),
    ItemPairs(GetProp(c, Kitems))>>

\* The signatures of the candidates, and how many of the candidates have the
\* signature of candidate n.
Signatures(results) == [n \in DOMAIN results |-> Signature(results[n])]

FrequenciesOf(sigs) ==
  [n \in DOMAIN sigs |-> Cardinality({m \in DOMAIN sigs : sigs[m] = sigs[n]})]

Frequencies(results) == FrequenciesOf(Signatures(results))

\* The first of the places that hold the greatest number.
FirstOfGreatest(freq) ==
  Min({n \in DOMAIN freq : \A m \in DOMAIN freq : freq[m] <= freq[n]})

\* The first candidate of the fullest bucket whose first member comes first.
MostFrequent(results) == FirstOfGreatest(Frequencies(results))

\* findConsensusResultFallback has run.
FallbackDone == pc = "done" /\ reducer.path = "fallback"

\* What the reducer returned is candidate n of its input: the object in place
\* n is the one returned, no other candidate was touched, and the result
\* differs from the candidate as given in assumptionsMade only.
ReturnedCandidate(n) ==
  /\ outcome.state = "resolved"
  /\ analysisResults = [reducer.input EXCEPT ![n] = outcome.val]
  /\ \A key \in {KmealDescription, KtotalEstimatedCalories, Kitems,
                  KconfidenceScore, Kerror} :
       GetProp(outcome.val, key) = GetProp(reducer.input[n], key)

ScoreOf(c) ==
  IF GetProp(c, KconfidenceScore).k = "num" THEN GetProp(c, KconfidenceScore).v ELSE 0

Scores(results) == [n \in DOMAIN results |-> ScoreOf(results[n])]

\* The first of the candidates with the highest confidenceScore.
HighestScored(results) == FirstOfGreatest(Scores(results))

\* C12: given candidates whose signatures are pairwise different,
\* findConsensusResultFallback returns the candidate with the highest
\* confidenceScore (an absent score counted as 0), and the first-provided of
\* them when the highest score is shared, all scores 0 or absent included.
C12_HighestConfidenceWins ==
  ( /\ FallbackDone
    /\ \A n \in DOMAIN reducer.input : Frequencies(reducer.input)[n] = 1 )
  => ReturnedCandidate(HighestScored(reducer.input))

\* Three candidates that agree on nothing, the first without a score and the
\* other two with the same positive score: the second was returned.
C12_Witness ==
  /\ FallbackDone
  /\ Len(reducer.input) = 3
  /\ \A n \in 1..3 : Frequencies(reducer.input)[n] = 1
  /\ GetProp(reducer.input[1], KconfidenceScore) = undefined
  /\ GetProp(reducer.input[2], KconfidenceScore) = Num(1)
  /\ GetProp(reducer.input[3], KconfidenceScore) = Num(1)
  /\ ReturnedCandidate(2)

\* Does the text end with the given text?
EndsWith(text, ending) ==
  /\ Len(text) >= Len(ending)
  /\ SubSeq(text, Len(text) - Len(ending) + 1, Len(text)) = ending

\* "consensus from k/N analyses"
ConsensusWords(k, N) ==
  <<"c", "o", "n", "s", "e", "n", "s", "u", "s", " ", "f", "r", "o", "m",
  " ">> \o NumChars(k) \o <<"/">> \o NumChars(N) \o <<" ", "a", "n", "a",
  "l", "y", "s", "e", "s">>

\* The size of the winning bucket and the number of candidates.
WinningBucketSize == Frequencies(reducer.input)[MostFrequent(reducer.input)]
CandidatesGiven == Len(reducer.input)

\* The assumptionsMade of the result, as text.
NoteOfResult == GetProp(outcome.val, KassumptionsMade).v

\* C13 as stated: the assumptionsMade of the reducer's result ends in
\* "consensus from k/N analyses", with k the size of the winning bucket and N
\* the number of candidates given.
C13_EndsInConsensusWords ==
  FallbackDone =>
    /\ outcome.state = "resolved"
    /\ GetProp(outcome.val, KassumptionsMade).k = "str"
    /\ EndsWith(NoteOfResult, ConsensusWords(WinningBucketSize, CandidatesGiven))

\* C13 amended: the assumptionsMade of the reducer's result ends in
\* "(Based on consensus from k/N analyses)", closing parenthesis included, with
\* k the size of the winning bucket and N the number of candidates given.
C13_EndsInConsensusNote ==
  FallbackDone =>
    /\ outcome.state = "resolved"
    /\ GetProp(outcome.val, KassumptionsMade).k = "str"
    /\ EndsWith(NoteOfResult,
         <<"(", "B", "a", "s", "e", "d", " ", "o", "n", " ">> \o
         ConsensusWords(WinningBucketSize, CandidatesGiven) \o <<")">>)

\* Three candidates of which the first two agree and the third differs: the
\* result's assumptionsMade is "s (Based on consensus from 2/3 analyses)".
C13_Witness ==
  /\ FallbackDone
  /\ Len(reducer.input) = 3
  /\ Frequencies(reducer.input) = <<2, 2, 1>>
  /\ outcome.state = "resolved"
  /\ NoteOfResult =
       <<"s", " ", "(", "B", "a", "s", "e", "d", " ", "o", "n", " ", "c",
       "o", "n", "s", "e", "n", "s", "u", "s", " ", "f", "r", "o", "m", " ",
       "2", "/", "3", " ", "a", "n", "a", "l", "y", "s", "e", "s", ")">>

\* processGeminiResponse has returned.
RepairDone == pc = "done" /\ processing.settled

\* An object that conforms to the schema: items an array of objects, numeric
\* totalEstimatedCalories and confidenceScore.
IsAnalysisResult(x) ==
  /\ x.k = "obj"
  /\ GetProp(x, Kitems).k = "arr"
  /\ \A n \in DOMAIN GetProp(x, Kitems).v : GetProp(x, Kitems).v[n].k = "obj"
  /\ GetProp(x, KtotalEstimatedCalories).k = "num"
  /\ GetProp(x, KconfidenceScore).k = "num"

\* C14: for every raw text and every behaviour of the validation call,
\* processGeminiResponse returns null or an object that conforms to the schema,
\* never a JSON boolean, number, string, array or object of another shape.
C14_NullOrAnalysisResult ==
  RepairDone => (outcome.val = null \/ IsAnalysisResult(outcome.val))

\* JSON.parse of the cleaned candidate, or null when it throws.
ParseOfCleaned == IF JSONparse(cleaned).ok THEN JSONparse(cleaned).val ELSE null

\* C15 as stated: if the validation call throws or its reply does not parse as
\* JSON, the result is the parse of the cleaned candidate, or null when that
\* does not parse either, and nothing is thrown.
C15_UnparsedReplyFallsBack ==
  ( /\ RepairDone
    /\ (processing.reply.threw \/ ~JSONparse(processing.reply.text).ok) )
  => outcome = Resolved(ParseOfCleaned)

\* C15 amended: if the validation call throws or its reply, with its fence
\* markers stripped and cut down to its outermost braces, does not parse as
\* JSON, the result is the parse of the cleaned candidate, or null when that
\* does not parse either, and nothing is thrown.
C15_UnparsedCleanedReplyFallsBack ==
  ( /\ RepairDone
    /\ \/ processing.reply.threw
       \/ ~JSONparse(cleanedValidation(processing.reply.text)).ok )
  => outcome = Resolved(ParseOfCleaned)

\* The validation call answered in prose to a candidate whose trailing comma
\* had been repaired: the result is the parse of the repaired candidate.
C15_Witness ==
  /\ RepairDone
  /\ processing.text = TrailingCommaText
  /\ processing.reply = Returned(ProseText)
  /\ outcome = Resolved(Obj(<<Prop(<<"a">>, Num(1))>>))

\* Neither the candidate nor the reply of the validation call parses: the
\* result is null.
C15_WitnessDiscarded ==
  /\ RepairDone
  /\ processing.text = ProseText
  /\ processing.reply = Threw
  /\ outcome = Resolved(null)

\* The text is minified JSON of an object: it parses to an object and is what
\* JSON.stringify makes of that object.
IsMinifiedObjectText(t) ==
  /\ JSONparse(t).ok
  /\ JSONparse(t).val.k = "obj"
  /\ JSONstringify(JSONparse(t).val) = t

\* C16: the syntactic repair steps are the identity on valid minified JSON of
\* an object, string-valued properties followed by further properties
\* included: the cleaned text is the raw text, character by character.
C16_IdentityOnMinifiedJSON ==
  (pc \in {"validate", "done"} /\ IsMinifiedObjectText(processing.text))
  => cleaned = processing.text

\* C17: the repair steps turn a trailing comma before a closing brace or
\* bracket into nothing ({"a": 1,} becomes {"a": 1}), and a quoted key followed
\* directly by a comma and a closing delimiter into the key with the value 0
\* ("totalEstimatedCalories",} is "totalEstimatedCalories": 0,} before the
\* step for trailing commas).
C17_CommaRepairs ==
  /\ (pc \in {"validate", "done"} /\ processing.text = TrailingCommaText) =>
       cleaned = <<"{", "\"", "a", "\"", ":", " ", "1", "}">>
  /\ (pc \in {"validate", "done"} /\ processing.text = BracketCommaText) =>
       cleaned = <<"{", "\"", "a", "\"", ":", "[", "1", "]", "}">>
  /\ (pc = "patched" /\ processing.text = MissingValueText) =>
       cleaned =
         <<"\"", "t", "o", "t", "a", "l", "E", "s", "t", "i", "m", "a", "t",
         "e", "d", "C", "a", "l", "o", "r", "i", "e", "s", "\"", ":", " ",
         "0", ",", "}">>

\* The key with a comma for its value has been patched and the step for
\* trailing commas is next.
C17_Witness ==
  /\ pc = "patched"
  /\ processing.text = MissingValueText
  /\ cleaned # processing.text
  /\ Len(cleaned) = Len(processing.text) + 3

\* The object with a trailing comma has been cleaned and sent for validation.
C17_WitnessTrailingComma ==
  /\ pc = "validate"
  /\ processing.text = TrailingCommaText
  /\ Len(cleaned) = Len(processing.text) - 1

\* "(Consensus generated from N analyses using AI)"
MergedWords(N) ==
  <<"(", "C", "o", "n", "s", "e", "n", "s", "u", "s", " ", "g", "e", "n",
  "e", "r", "a", "t", "e", "d", " ", "f", "r", "o", "m", " ">> \o
  NumChars(N) \o <<" ", "a", "n", "a", "l", "y", "s", "e", "s", " ", "u",
  "s", "i", "n", "g", " ", "A", "I", ")">>

\* Does the text begin with the given text?
StartsWith(text, beginning) ==
  /\ Len(text) >= Len(beginning)
  /\ SubSeq(text, 1, Len(beginning)) = beginning

\* val is the parsed merge reply with the note that N analyses were merged
\* appended to its assumptionsMade, and nothing else changed.
IsMergedWithNote(val, parsed, N) ==
  /\ val.k = "obj"
  /\ \A key \in {KmealDescription, KtotalEstimatedCalories, Kitems,
                  KconfidenceScore, Kerror} :
       GetProp(val, key) = GetProp(parsed, key)
  /\ GetProp(val, KassumptionsMade).k = "str"
  /\ EndsWith(GetProp(val, KassumptionsMade).v, MergedWords(N))
  /\ GetProp(parsed, KassumptionsMade).k = "str" =>
       StartsWith(GetProp(val, KassumptionsMade).v,
                  GetProp(parsed, KassumptionsMade).v)

\* C18: when the merge call returns and its reply passes processGeminiResponse
\* (which returns a value for it, not null), the run returns the parsed merge
\* reply with a note appended to assumptionsMade that N analyses were merged,
\* N being the number of candidates given to the reducer.
C18_MergedReplyNoted ==
  (pc = "done" /\ reducer.merged \notin {undefined, null}) =>
    /\ outcome.state = "resolved"
    /\ IsMergedWithNote(outcome.val, reducer.merged, Len(reducer.input))

\* C19: if every model call settles in the end, every run of
\* getCalorieBreakdown ends in the end with its promise settled: from no state
\* does it loop or wait for ever.
C19_RunCompletes == <>(pc = "done" /\ outcome.state \in {"resolved", "rejected"})

\* A run that went through the gate, five samples with their validation and
\* the merge with its validation has ended.
C19_Witness ==
  /\ pc = "done"
  /\ outcome.state = "resolved"
  /\ calls = [gate |-> 1, sample |-> 5, validation |-> 6, merge |-> 1]

\* C20: the stages of a run come in the order gate, samples, reduction: in the
\* action that has the gate (lines 15-187), no sample call is issued before
\* the gate call has settled (with a food image),
\* and findConsensusResult is invoked only when all NUM_ANALYSES sample calls
\* have been issued and none of them, and no validation call of theirs, is
\* still out.
C20_StagesInOrder ==
  /\ (hasGate(variant) /\ calls.sample >= 1) =>
       calls.gate = 1 /\ gate.settled /\ gate.isFood
  /\ reducer.path # "none" =>
       /\ calls.sample = NUM_ANALYSES
       /\ i = NUM_ANALYSES
       /\ pc \in {"merge", "mergeValidate", "done"}

\* The reducer has been invoked after a settled gate call and five sample calls
\* that all went through validation.
C20_Witness ==
  /\ reducer.path # "none"
  /\ gate.settled
  /\ calls.sample = NUM_ANALYSES
  /\ calls.validation >= NUM_ANALYSES
  /\ Len(reducer.input) >= 2

\* The candidates as a step leaves them: what the reducer is given when the
\* step invokes it, the collected list otherwise.
HandedOn ==
  IF reducer.path = "none" /\ reducer'.path # "none"
  THEN reducer'.input
  ELSE analysisResults'

\* C21: the candidates handed to the reducer are exactly the accepted results
\* of the samples, in the order of the sample calls: a sample call that
\* returns text leaves the list as it is until its validation settles, a
\* sample call that throws leaves it as it is, a validation that settles adds
\* its result at the end when that result is accepted and nothing otherwise,
\* and what the reducer was given is not changed afterwards.
C21_CandidatesInCallOrder ==
  [][/\ pc = "sample" /\ pc' = "validate" => analysisResults' = analysisResults
     /\ pc = "sample" /\ pc' # "validate" => HandedOn = analysisResults
     /\ pc = "validate" =>
          \E reply \in Replies :
            HandedOn =
              IF Truthy(Tabulated(ProcessedResponses, <<cleaned, reply>>))
              THEN analysisResults
                     \o <<Tabulated(ProcessedResponses, <<cleaned, reply>>)>>
              ELSE analysisResults
     /\ reducer.path # "none" => reducer'.input = reducer.input]_vars

\* The reducer was given two different candidates, collected from five sample
\* calls of which some were dropped.
C21_Witness ==
  /\ reducer.path # "none"
  /\ Len(reducer.input) \in 2..(NUM_ANALYSES - 1)
  /\ reducer.input[1] # reducer.input[2]
  /\ calls.sample = NUM_ANALYSES

\* C22: reduction only reads the candidates: once the reducer has returned on
\* two or more candidates, by the merge or by the fallback, every candidate it
\* was given has the field values it had before, assumptionsMade included.
C22_CandidatesUntouched ==
  (pc = "done" /\ reducer.path # "none" /\ Len(reducer.input) >= 2
     /\ outcome.state = "resolved")
    => analysisResults = reducer.input

\* The number of model calls issued so far.
TotalCalls == calls.gate + calls.sample + calls.validation + calls.merge

\* The most calls a run can make: the gate, NUM_ANALYSES samples with one
\* validation each, the merge and its validation.
MostCalls == 1 + NUM_ANALYSES + NUM_ANALYSES + 1 + 1

\* Every sample index has had exactly one call, the call that is out included.
OneCallPerSample ==
  calls.sample = IF pc \in {"sample", "validate"} THEN i + 1 ELSE i

\* What a step may issue: a sample call that settles is either sent to
\* validation once or dropped, and the loop moves on to the next index; a
\* validation call that settles is not repeated; the merge call is issued once
\* and followed by at most one validation call.
IssuesNoRepeat ==
  /\ pc = "sample" =>
       \/ pc' = "validate" /\ calls'.validation = calls.validation + 1 /\ i' = i
            /\ calls'.sample = calls.sample
       \/ pc' # "validate" /\ calls'.validation = calls.validation /\ i' = i + 1
  /\ pc = "validate" => calls'.validation = calls.validation /\ i' = i + 1
  /\ pc = "merge" =>
       /\ calls'.merge = calls.merge /\ calls'.sample = calls.sample
       /\ calls'.validation = calls.validation + (IF pc' = "mergeValidate" THEN 1 ELSE 0)
  /\ pc = "mergeValidate" => calls' = calls

\* C23: no failed call is issued again.  A run makes at most one gate call,
\* one call per sample index, exactly one validation call for a sample call
\* that returned text and none for one that threw, at most one merge call and
\* at most one validation call for the merge reply: never more than 13 calls.
C23_NoCallReissued ==
  /\ [](/\ calls.gate <= 1
        /\ calls.merge <= 1
        /\ OneCallPerSample
        /\ calls.validation <= calls.sample + calls.merge
        /\ TotalCalls <= MostCalls
        /\ MostCalls = 13)
  /\ [][IssuesNoRepeat]_vars

\* A run that ended after 13 calls, and one in which a sample call threw.
C23_Witness ==
  /\ pc = "done"
  /\ TotalCalls = 13

C23_WitnessThrown ==
  /\ pc = "done"
  /\ calls.sample = NUM_ANALYSES
  /\ calls.validation \in 1..(NUM_ANALYSES - 1)
  /\ calls.merge = 0

\* The gate call returned text and validateFoodImage has returned.
GateAnswered == pc = "done" /\ gate.settled /\ ~gate.reply.threw

\* The text is "true" in some mix of cases with nothing but whitespace around.
IsPaddedTrue(t) ==
  \E first \in 1..(Len(t) + 1), last \in 0..Len(t) :
    /\ \A n \in 1..Len(t) : (n < first \/ n > last) => t[n] \in Whitespace
    /\ last - first + 1 = 4
    /\ t[first] \in {"t", "T"}
    /\ t[first + 1] \in {"r", "R"}
    /\ t[first + 2] \in {"u", "U"}
    /\ t[first + 3] \in {"e", "E"}

\* C24: when the gate's model call returns text, validateFoodImage returns
\* true if and only if that text, trimmed and lower-cased, is exactly "true";
\* "false", "yes", "true." and the empty text make it return false.
C24_TrueOnlyOnTrue ==
  GateAnswered =>
    /\ gate.isFood <=> IsPaddedTrue(gate.reply.text)
    /\ gate.reply.text \in {l \o c \o r : l \in Pads, c \in OtherAnswers, r \in Pads}
         => ~gate.isFood

\* The gate returned true on " TRUE" with whitespace around it, and false on
\* "true.".
C24_Witness ==
  /\ GateAnswered
  /\ gate.isFood
  /\ gate.reply.text = <<" ", "T", "R", "U", "E", "\n">>

C24_WitnessFalse ==
  /\ GateAnswered
  /\ ~gate.isFood
  /\ gate.reply.text = <<"t", "r", "u", "e", ".">>

\* C25: when the gate returns false the rest of the pipeline is not run: the
\* run ends at once, and no sample call, no validation call and no merge call
\* is issued in it.
C25_GateStopsPipeline ==
  (gate.settled /\ ~gate.isFood) =>
    /\ pc = "done"
    /\ calls = [gate |-> 1, sample |-> 0, validation |-> 0, merge |-> 0]
    /\ i = 0
    /\ analysisResults = <<>>
    /\ reducer = NotReduced

\* A run whose gate call answered "yes" has ended after that one call.
C25_Witness ==
  /\ gate.settled /\ ~gate.isFood
  /\ gate.reply = Returned(<<"y", "e", "s">>)
  /\ pc = "done"
  /\ TotalCalls = 1

\* C26: the fallback reducer returns one of the candidates it was given, never
\* a value of its own making, and what it returns differs from that candidate
\* as given in assumptionsMade only: mealDescription, totalEstimatedCalories,
\* items and confidenceScore are unchanged.
C26_ReturnsAnInputCandidate ==
  FallbackDone =>
    \E n \in DOMAIN reducer.input :
      /\ ReturnedCandidate(n)
      /\ outcome.val = analysisResults[n]

\* Of three candidates the second was returned, with a note added to its
\* assumptionsMade.
C26_Witness ==
  /\ FallbackDone
  /\ Len(reducer.input) = 3
  /\ ReturnedCandidate(2)
  /\ ~ReturnedCandidate(1)
  /\ GetProp(outcome.val, KassumptionsMade) # GetProp(reducer.input[2], KassumptionsMade)

\* C27: the two getCalorieBreakdown actions are the same logic: on the same
\* credential and the same script of model replies and failures, both return
\* the same result.
C27_VariantsAgree ==
  scripted.ran => scripted.first = scripted.second

\* The value is not null; it carries an error that is a non-empty string.
NonNull(x) == x.k # "null"
CarriesError(x) == GetProp(x, Kerror).k = "str" /\ GetProp(x, Kerror).v # <<>>

\* C28: on the home page, once handleSubmit has settled, isLoading is false and
\* exactly one of error and calorieData is non-null; a pipeline result with a
\* non-empty error is stored as the error message only, and is never stored
\* (so never displayed) as calorie data; and handleSubmit without a selected
\* image makes no call and changes no state.
C28_SubmitSettles ==
  /\ [](page.at = "settled" =>
          /\ ~page.isLoading
          /\ NonNull(page.error) # NonNull(page.calorieData)
          /\ (page.result.state = "resolved" /\ CarriesError(page.result.val)) =>
               /\ page.error = GetProp(page.result.val, Kerror)
               /\ ~NonNull(page.calorieData))
  /\ [](NonNull(page.calorieData) => ~CarriesError(page.calorieData))
  /\ [][(page'.invoked # page.invoked /\ ~page.selectedImage) =>
          page' = [page EXCEPT !.invoked = @ + 1]]_vars

\* A submit has settled with the not-food result stored as the error message;
\* handleSubmit was invoked once more, with no image selected.
C28_Witness ==
  /\ page.at = "settled"
  /\ page.result = Resolved(NotFoodResult)
  /\ page.error = GetProp(NotFoodResult, Kerror)
  /\ ~page.selectedImage
  /\ page.invoked = 2
  /\ page.called = 1

\* A submit has settled with a result stored as calorie data.
C28_WitnessData ==
  /\ page.at = "settled"
  /\ NonNull(page.calorieData)
  /\ page.result = Resolved(WellFormed(1))

\* The fetched list without the entries whose delete succeeded.
RECURSIVE Without(_, _)
Without(items, ids) ==
  IF items = <<>> THEN <<>>
  ELSE IF Head(items) \in ids THEN Without(Tail(items), ids)
  ELSE <<Head(items)>> \o Without(Tail(items), ids)

\* C29: on the history page, when every delete that was started has settled
\* (two started before either settled included), the list shown is the fetched
\* list without exactly the entries whose deleteHistoryItem succeeded: a
\* deleted entry is not shown again, and one whose delete failed stays.
C29_ShownIsFetchedMinusDeleted ==
  (page.open = "history" /\ ~page.isLoading /\ page.deleting = {}) =>
    page.history = Without(page.fetched, page.succeeded)
====
